---- MODULE Spec2Model ----
(***************************************************************************)
(* ParseTrail client core: plugin registry (core/plugins.py), the boolean  *)
(* SEARCH_STRING matcher and the per-suffix routers (core/parse.py).       *)
(*                                                                         *)
(* Python strings that the code inspects character by character (match    *)
(* expressions, document text, file suffixes) are sequences of one-        *)
(* character strings; opaque strings (plugin ids, error texts) are TLA+    *)
(* strings.                                                                *)
(***************************************************************************)
EXTENDS Integers, Sequences, FiniteSets, TLC

\* ------------------------------------------------------------------------
\* Bounds of the model
\* ------------------------------------------------------------------------

\* Largest number of *.pyc artifacts in the plugin directory.
MaxDir == 3

\* Largest number of pieces (literal characters, operators, parentheses,
\* quotes, blanks) a generated match expression is made of.
MaxPieces == 4

\* Largest number of transactions of a generated account.
MaxTxns == 3

\* ------------------------------------------------------------------------
\* Strings
\* ------------------------------------------------------------------------

\* str.lower() on one character, over the alphabet the model uses.
LowerChar(c) ==
    CASE c = "A" -> "a"
      [] c = "B" -> "b"
      [] c = "C" -> "c"
      [] c = "D" -> "d"
      [] c = "F" -> "f"
      [] c = "L" -> "l"
      [] c = "P" -> "p"
      [] c = "S" -> "s"
      [] c = "T" -> "t"
      [] c = "V" -> "v"
      [] c = "X" -> "x"
      [] OTHER -> c

\* str.lower()
Lower(s) == [k \in 1..Len(s) |-> LowerChar(s[k])]

\* Python `token in text`: substring containment.
Contains(text, token) ==
    \E k \in 0..(Len(text) - Len(token)) :
        \A j \in 1..Len(token) : text[k + j] = token[j]

\* ------------------------------------------------------------------------
\* ContentMatcher: parse_search_string / evaluate_tree / match_search_string
\* ------------------------------------------------------------------------

OperatorChars == {"(", ")", "&", "|"}

\* A token of the tree: a literal or operator string (kind "str", text s),
\* or a nested list (kind "list", elements items).
StrTok(s) == [kind |-> "str", s |-> s, items |-> <<>>]
ListTok(items) == [kind |-> "list", s |-> <<>>, items |-> items]

AndTok == StrTok(<<"&", "&">>)
OrTok == StrTok(<<"|", "|">>)
OpenTok == StrTok(<<"(">>)
CloseTok == StrTok(<<")">>)

\* Index of the first '"' at or after position k, or 0.
RECURSIVE NextQuote(_, _)
NextQuote(e, k) ==
    IF k > Len(e) THEN 0
    ELSE IF e[k] = "\"" THEN k
    ELSE NextQuote(e, k + 1)

\* End of the maximal run of [^()&|] starting at k (k itself is in the run).
RECURSIVE RunEnd(_, _)
RunEnd(e, k) ==
    IF k < Len(e) /\ e[k + 1] \notin OperatorChars THEN RunEnd(e, k + 1) ELSE k

\* re.findall(r'&&|\|\||\(|\)|"[^"]*"|[^()&|]+', e) from position k on: the
\* alternatives are tried in this order at each position, and a character no
\* alternative matches (a single & or |) is skipped.
RECURSIVE FindAll(_, _)
FindAll(e, k) ==
    IF k > Len(e) THEN <<>>
    ELSE IF k < Len(e) /\ e[k] = "&" /\ e[k + 1] = "&"
        THEN <<AndTok>> \o FindAll(e, k + 2)
    ELSE IF k < Len(e) /\ e[k] = "|" /\ e[k + 1] = "|"
        THEN <<OrTok>> \o FindAll(e, k + 2)
    ELSE IF e[k] = "(" THEN <<OpenTok>> \o FindAll(e, k + 1)
    ELSE IF e[k] = ")" THEN <<CloseTok>> \o FindAll(e, k + 1)
    ELSE IF e[k] = "\"" /\ NextQuote(e, k + 1) # 0
        THEN LET q == NextQuote(e, k + 1)
             IN  <<StrTok(SubSeq(e, k, q))>> \o FindAll(e, q + 1)
    ELSE IF e[k] \notin OperatorChars
        THEN LET r == RunEnd(e, k)
             IN  <<StrTok(SubSeq(e, k, r))>> \o FindAll(e, r + 1)
    ELSE FindAll(e, k + 1)

\* A variant of tokenize that drops the blanks of the expression.
tokenize_stripped(expr) == FindAll(Lower(SelectSeq(expr, LAMBDA c : c # " ")), 1)

tokenize(expr) == FindAll(Lower(expr), 1)

\* Results of functions that may raise ValueError.
TreeOk(t) == [err |-> FALSE, tree |-> t]
TreeErr == [err |-> TRUE, tree |-> <<>>]

\* build_tree: `stack` holds the enclosing lists, `current` the open one.
RECURSIVE BuildFrom(_, _, _)
BuildFrom(tokens, stack, current) ==
    IF tokens = <<>>
    THEN IF stack # <<>> THEN TreeErr ELSE TreeOk(current)
    ELSE LET token == Head(tokens)
             rest == Tail(tokens)
         IN  IF token = OpenTok
             THEN BuildFrom(rest, Append(stack, current), <<>>)
             ELSE IF token = CloseTok
             THEN IF stack = <<>>
                  THEN TreeErr
                  ELSE BuildFrom(rest, SubSeq(stack, 1, Len(stack) - 1),
                                 Append(stack[Len(stack)], ListTok(current)))
             ELSE BuildFrom(rest, stack, Append(current, token))

build_tree(tokens) == BuildFrom(tokens, <<>>, <<>>)

parse_search_string(search_string) == build_tree(tokenize(search_string))

BoolOk(b) == [err |-> FALSE, val |-> b]
BoolErr == [err |-> TRUE, val |-> FALSE]

\* A variant of FinalStack that returns the top of the stack whatever is
\* below it.
FinalStackTop(stack) ==
    IF stack = <<>> THEN BoolErr ELSE BoolOk(stack[Len(stack)])

\* The end of evaluate_tree: `if len(stack) != 1: raise ValueError(...)`,
\* `return stack[0]`.
FinalStack(stack) ==
    IF Len(stack) # 1 THEN BoolErr ELSE BoolOk(stack[1])

\* evaluate_tree: the loop `while tokens: token = tokens.pop(0)` with its
\* local stack.  The right operand of an operator is the evaluation of the
\* whole remaining list, which that recursive call empties.
RECURSIVE EvalLoop(_, _, _)
EvalLoop(tokens, text, stack) ==
    IF tokens = <<>>
    THEN FinalStack(stack)
    ELSE LET token == Head(tokens)
             rest == Tail(tokens)
         IN  IF token = AndTok \/ token = OrTok
             THEN IF Len(stack) < 1
                  THEN BoolErr
                  ELSE LET left == stack[Len(stack)]
                           right == EvalLoop(rest, Lower(text), <<>>)
                           popped == SubSeq(stack, 1, Len(stack) - 1)
                       IN  IF right.err
                           THEN BoolErr
                           ELSE EvalLoop(<<>>, text,
                                    Append(popped,
                                        IF token = AndTok
                                        THEN left /\ right.val
                                        ELSE left \/ right.val))
             ELSE IF token.kind = "list"
             THEN LET sub == EvalLoop(token.items, Lower(text), <<>>)
                  IN  IF sub.err
                      THEN BoolErr
                      ELSE EvalLoop(rest, text, Append(stack, sub.val))
             ELSE EvalLoop(rest, text, Append(stack, Contains(text, token.s)))

evaluate_tree(tokens, text) == EvalLoop(tokens, Lower(text), <<>>)

\* match_search_string: a boolean, or ValueError("Error in SEARCH_STRING ...").
match_search_string(search_string, text) ==
    LET tree == parse_search_string(search_string)
    IN  IF tree.err THEN BoolErr ELSE evaluate_tree(tree.tree, text)


\* ------------------------------------------------------------------------
\* Python values
\* ------------------------------------------------------------------------

\* An attribute that is None, or a dict: `items` lists its (key, value)
\* entries in insertion order, as Python dicts iterate.
NoneVal == [isNone |-> TRUE, items |-> <<>>]
Dict(items) == [isNone |-> FALSE, items |-> items]

HasKey(d, key) == \E k \in 1..Len(d.items) : d.items[k].key = key
Lookup(d, key) == d.items[CHOOSE k \in 1..Len(d.items) : d.items[k].key = key].val

\* d[key] = val: a new key goes last, an existing key keeps its place.
DictSet(d, key, val) ==
    IF HasKey(d, key)
    THEN Dict([k \in 1..Len(d.items) |->
                 IF d.items[k].key = key THEN [key |-> key, val |-> val]
                 ELSE d.items[k]])
    ELSE Dict(Append(d.items, [key |-> key, val |-> val]))

\* An exception: its class, its message template, the values interpolated
\* into the message, and (aggregated failure only) the per-plugin entries.
Exc(type, text, args) == [type |-> type, text |-> text, args |-> args, entries |-> <<>>]

\* A call's result: a returned value or a raised exception.
NoExc == Exc("", "", <<>>)
Returned(v) == [raised |-> FALSE, value |-> v, exc |-> NoExc]

\* ------------------------------------------------------------------------
\* Ledger data (parsetrail.core.validation)
\* ------------------------------------------------------------------------

Txn(date, amount, balance) == [date |-> date, amount |-> amount, balance |-> balance]
Account(start, end, txns) ==
    [start_balance |-> start, end_balance |-> end, transactions |-> txns]
NoMetadata == [file |-> "", plugin |-> ""]
Statement(start, end, accounts) ==
    [type |-> "Statement", start_date |-> start, end_date |-> end,
     accounts |-> accounts, metadata |-> NoMetadata]

\* A value that is not a Statement (a plugin returning None).
NotAStatement ==
    [type |-> "NoneType", start_date |-> 0, end_date |-> 0,
     accounts |-> <<>>, metadata |-> NoMetadata]

Raised(e) == [raised |-> TRUE, value |-> NotAStatement, exc |-> e]

\* Stable insertion of t into a date-sorted list: after every txn whose
\* date is not later.
RECURSIVE InsertByDate(_, _)
InsertByDate(sorted, t) ==
    IF sorted = <<>> THEN <<t>>
    ELSE IF sorted[Len(sorted)].date <= t.date THEN Append(sorted, t)
    ELSE Append(InsertByDate(SubSeq(sorted, 1, Len(sorted) - 1), t),
                sorted[Len(sorted)])

RECURSIVE SortByDate(_)
SortByDate(txns) ==
    IF txns = <<>> THEN <<>>
    ELSE InsertByDate(SortByDate(SubSeq(txns, 1, Len(txns) - 1)), txns[Len(txns)])

RECURSIVE SumAmounts(_, _)
SumAmounts(txns, n) == IF n = 0 THEN 0 ELSE SumAmounts(txns, n - 1) + txns[n].amount

\* Account.sort_and_compute_balances: chronological order, running balance.
sort_and_compute_balances(account) ==
    LET sorted == SortByDate(account.transactions)
    IN  [account EXCEPT !.transactions =
            [k \in 1..Len(sorted) |->
                [sorted[k] EXCEPT !.balance =
                    account.start_balance + SumAmounts(sorted, k)]]]

\* Statement.add_metadata(fpath, plugin_name)
add_metadata(statement, fpath, plugin_name) ==
    [statement EXCEPT !.metadata = [file |-> fpath, plugin |-> plugin_name]]

FinalBalance(account) ==
    IF account.transactions = <<>> THEN account.start_balance
    ELSE account.transactions[Len(account.transactions)].balance

\* validate_statement: the list of defects, empty when the ledger is valid.
validate_statement(statement) ==
    (IF Len(statement.accounts) = 0 THEN <<"no accounts">> ELSE <<>>)
    \o (IF statement.start_date > statement.end_date THEN <<"dates out of order">> ELSE <<>>)
    \o (IF \E k \in 1..Len(statement.accounts) :
              FinalBalance(statement.accounts[k]) # statement.accounts[k].end_balance
        THEN <<"ending balance mismatch">> ELSE <<>>)


\* ------------------------------------------------------------------------
\* Plugin artifacts and the PluginContract (parsetrail.core.interfaces)
\* ------------------------------------------------------------------------

PDF == <<".", "p", "d", "f">>
CSV == <<".", "c", "s", "v">>
XLSX == <<".", "x", "l", "s", "x">>
TXT == <<".", "t", "x", "t">>

\* class_variables(IParser): the metadata every plugin class must define.
RequiredVariables ==
    {"PLUGIN_NAME", "VERSION", "SUFFIX", "COMPANY", "STATEMENT_TYPE",
     "SEARCH_STRING", "INSTRUCTIONS"}

\* A *.pyc file of the plugin directory.  `module` says what importing it
\* gives: "ok" (a module whose Parser is an IParser), "import_error",
\* "no_parser" (no Parser attribute), "not_iparser", "truncated" (a file cut
\* short, which exec_module cannot read).  `missing` are the
\* required class variables the Parser class does not define.
Artifact(stem, file, module, suffix, search, version, missing) ==
    [stem |-> stem, file |-> file, module |-> module, missing |-> missing,
     PLUGIN_NAME |-> stem, VERSION |-> version, SUFFIX |-> suffix,
     COMPANY |-> "Bank", STATEMENT_TYPE |-> "Monthly Statement",
     SEARCH_STRING |-> search, INSTRUCTIONS |-> "Download the statement."]

\* The artifacts a plugin directory is drawn from.
ArtifactPool ==
    { Artifact("pdf_a", "pdf_a.pyc", "ok", PDF, <<"a">>, "0.1.0", {}),
      Artifact("pdf_b", "pdf_b.pyc", "ok", PDF, <<"A", "|", "|", "b">>, "0.1.0", {}),
      Artifact("pdf_c", "pdf_c.pyc", "ok", PDF, <<"(", "a", "|", "|", "b", ")">>, "0.2.0", {}),
      Artifact("pdf_m", "pdf_m.pyc", "ok", PDF, <<"a", "&", "&">>, "0.1.0", {}),
      Artifact("csv_c", "csv_c.pyc", "ok", CSV, <<"a">>, "0.1.0", {}),
      Artifact("xlsx_x", "xlsx_x.pyc", "ok", XLSX, <<"b">>, "0.1.0", {}),
      Artifact("txt_t", "txt_t.pyc", "ok", TXT, <<"a">>, "0.1.0", {}),
      Artifact("bad_import", "bad_import.pyc", "import_error", PDF, <<"a">>, "0.1.0", {}),
      Artifact("bad_field", "bad_field.pyc", "ok", PDF, <<"a">>, "0.1.0", {"SUFFIX"}) }

\* The class object a module binds to the name Parser: `class Parser(IParser)`
\* has __name__ "Parser" in every plugin; `module` tells the classes apart.
ParserClassOf(artifact) == [name |-> "Parser", module |-> artifact.stem]

\* validate_parser(ParserClass, required_variables): every required class
\* variable exists and is non-empty.
validate_parser(artifact) ==
    /\ artifact.missing \cap RequiredVariables = {}
    /\ artifact.PLUGIN_NAME # ""
    /\ artifact.VERSION # ""
    /\ artifact.SUFFIX # <<>>
    /\ artifact.COMPANY # ""
    /\ artifact.STATEMENT_TYPE # ""
    /\ artifact.SEARCH_STRING # <<>>
    /\ artifact.INSTRUCTIONS # ""

Metadata(artifact) ==
    [PLUGIN_NAME |-> artifact.PLUGIN_NAME, VERSION |-> artifact.VERSION,
     SUFFIX |-> artifact.SUFFIX, COMPANY |-> artifact.COMPANY,
     STATEMENT_TYPE |-> artifact.STATEMENT_TYPE,
     SEARCH_STRING |-> artifact.SEARCH_STRING,
     INSTRUCTIONS |-> artifact.INSTRUCTIONS, FILENAME |-> artifact.file]

Loaded(artifact) ==
    [raised |-> FALSE, exc |-> NoExc, plugin_name |-> artifact.stem,
     ParserClass |-> ParserClassOf(artifact), metadata |-> Metadata(artifact)]

LoadFailed(artifact, e) ==
    [raised |-> TRUE, exc |-> e, plugin_name |-> artifact.stem,
     ParserClass |-> ParserClassOf(artifact), metadata |-> Metadata(artifact)]

\* load_plugin(plugin_file): (plugin_name, ParserClass, metadata) or an
\* exception.
load_plugin(plugin_file) ==
    IF plugin_file.module = "truncated"
    THEN LoadFailed(plugin_file, Exc("EOFError", "reached EOF while reading pyc header", <<plugin_file.file>>))
    ELSE IF plugin_file.module = "import_error"
    THEN LoadFailed(plugin_file, Exc("ImportError", "Cannot load module from", <<plugin_file.file>>))
    ELSE IF plugin_file.module = "no_parser"
    THEN LoadFailed(plugin_file, Exc("ValueError", "No 'Parser' class found in", <<plugin_file.file>>))
    ELSE IF plugin_file.module = "not_iparser"
    THEN LoadFailed(plugin_file, Exc("TypeError", "must implement IParser", <<plugin_file.stem>>))
    ELSE IF ~validate_parser(plugin_file)
    THEN LoadFailed(plugin_file, Exc("ValueError", "missing required class variable", <<plugin_file.stem>>))
    ELSE Loaded(plugin_file)


\* ------------------------------------------------------------------------
\* Documents and plugin behaviour
\* ------------------------------------------------------------------------

\* Ledgers a plugin's parse() may return: one that reconciles to its declared
\* ending balance (transactions out of date order, stale balances) and one
\* whose declared ending balance differs from start + sum of amounts.
GoodStatement ==
    Statement(1, 2, <<Account(10, 15, <<Txn(2, 3, 0), Txn(1, 2, 99)>>)>>)
UnbalancedStatement ==
    Statement(1, 2, <<Account(10, 20, <<Txn(2, 3, 0), Txn(1, 2, 99)>>)>>)

\* What parser().parse(input_data) does on a given document: raise, or
\* return a value.
Outcomes ==
    { Raised(Exc("ValueError", "No lines extracted from the PDF.", <<>>)),
      Returned(NotAStatement),
      Returned(GoodStatement),
      Returned(UnbalancedStatement) }

\* Plain text of the documents handed to parse_any.
Texts == { <<"x", "a">>, <<"B">>, <<"x">> }

\* Suffixes of the documents handed to parse_any.
InputSuffixes ==
    { PDF, <<".", "P", "D", "F">>, CSV, XLSX, TXT }

\* ROUTERS after the three register_router calls.
ROUTERS == [s \in {PDF, CSV, XLSX} |->
              IF s = PDF THEN "PDFRouter" ELSE IF s = CSV THEN "CSVRouter" ELSE "XLSXRouter"]

\* ------------------------------------------------------------------------
\* State
\* ------------------------------------------------------------------------

VARIABLES
    dir,          \* settings.plugin_dir: the *.pyc artifacts in glob order
    plugins,      \* PluginManager.plugins: None or {plugin_id: ParserClass}
    metadata,     \* PluginManager.metadata: None or {plugin_id: metadata}
    suffixes,     \* PluginManager.suffixes (sorted, duplicate-free: a set)
    success,      \* load_plugins: local counter
    lidx,         \* load_plugins: position of the glob iteration
    lpc,          \* load_plugins: "idle" or "scan"
    load_log,     \* logger.error records of the current load_plugins call
    pc,           \* parse_any: "idle", "router", "reading", "chain", "done"
    source,       \* parse_any: the source argument, a Path or a ParseInput
    parse_input,  \* the ParseInput of the call
    path_hint,    \* parse_any: path_hint, the Path given or None
    router,       \* class of the router instantiated by the call, or "none"
    consulted,    \* the call has iterated the registry's metadata index
    reader_open,  \* the PDFReader context of PDFRouter.parse is entered
    cands,        \* PDFRouter.parse: plugins returned by select_parser
    behav,        \* what each candidate's parse() does on this document
    idx,          \* PDFRouter.parse: loop position (1-based)
    errs,         \* PDFRouter.parse: errs
    calls,        \* plugin classes whose parse() the call has invoked, in order
    phases,       \* phases the latest extract_statement went through
    result,       \* outcome of the call: returned Statement or exception
    tpc,          \* PluginUpdateThread: "idle", "run", "compare", "finished"
    local_plugins,   \* PluginUpdateThread.run: local_plugins
    server_plugins,  \* PluginUpdateThread.run: server_plugins
    signal,       \* the signal PluginUpdateThread.run emitted, or NoSignal
    mexpr,        \* match_search_string: the search_string argument
    mtext,        \* match_search_string: the text argument
    mres,         \* match_search_string: its outcome, or NotCalled
    extracted,    \* extract_statement: the Statement run_parser returned
    ledger,       \* extract_statement: its accounts after the reconcile loop
    ucall,        \* the update call made: "none", "sync_plugins",
                  \* "check_for_plugin_updates"
    upc,          \* its position: "idle", "download", "reload", "reloading",
                  \* "done"; "later" once load_plugins was called after it
    progress,     \* sync_plugins: the progress argument
    local_list,   \* sync_plugins / check_for_plugin_updates: local_plugins
    server_list,  \* sync_plugins / check_for_plugin_updates: server_plugins
    new_plugins,  \* sync_plugins: new_plugins
    dl,           \* sync_plugins: position of the loop over new_plugins
    downloads,    \* the download_plugin calls made: file name and success
    uresult       \* outcome of the update call

regvars == <<dir, plugins, metadata, suffixes, success, lidx, lpc, load_log>>
callvars == <<pc, source, parse_input, path_hint, router, consulted, reader_open, cands, behav,
              idx, errs, calls, phases, result>>
threadvars == <<tpc, local_plugins, server_plugins, signal>>
matchvars == <<mexpr, mtext, mres>>
ledgervars == <<extracted, ledger>>
updatevars == <<ucall, upc, progress, local_list, server_list, new_plugins, dl,
                downloads, uresult>>
vars == <<dir, plugins, metadata, suffixes, success, lidx, lpc, load_log,
          pc, source, parse_input, path_hint, router, consulted, reader_open,
          cands, behav, idx, errs, calls, phases, result,
          tpc, local_plugins, server_plugins, signal,
          mexpr, mtext, mres, extracted, ledger,
          ucall, upc, progress, local_list, server_list, new_plugins, dl,
          downloads, uresult>>

Range(s) == {s[k] : k \in 1..Len(s)}

\* Directory listings: up to n distinct artifacts, in any order.
RECURSIVE Listings(_)
Listings(n) ==
    IF n = 0 THEN {<<>>}
    ELSE LET shorter == Listings(n - 1)
         IN  shorter \cup
             {Append(l, a) : <<l, a>> \in
                 {<<l, a>> \in shorter \X ArtifactPool :
                     \A k \in 1..Len(l) : l[k].stem # a.stem}}

\* ParseInput(name, suffix, data); `text` is the text the router reads out of
\* the bytes.
ParseInput(name, suffix, data) == [name |-> name, suffix |-> suffix, text |-> data]
NoInput == ParseInput("", <<>>, <<>>)

\* A pathlib.Path: str(path) and its name and suffix properties; or None.
PathValue(path, name, suffix) ==
    [isNone |-> FALSE, path |-> path, name |-> name, suffix |-> suffix]
NoPath == [isNone |-> TRUE, path |-> "", name |-> "", suffix |-> <<>>]

\* Statement files on disk.
Files ==
    { PathValue("/docs/stmt.PDF", "stmt.PDF", <<".", "P", "D", "F">>),
      PathValue("/docs/stmt.csv", "stmt.csv", CSV),
      PathValue("/docs/stmt.txt", "stmt.txt", TXT) }

\* Path(name) for the names of the model: a relative path.
PathOf(name) ==
    PathValue(name, name, (CHOOSE f \in Files : f.name = name).suffix)

\* The source argument of parse_any: a Path (with the content of the file)
\* or a ParseInput.
FromDisk(fpath, data) ==
    [kind |-> "Path", path |-> fpath, input |-> NoInput, data |-> data]
InMemory(input) ==
    [kind |-> "ParseInput", path |-> NoPath, input |-> input, data |-> input.text]
NoSource == [kind |-> "", path |-> NoPath, input |-> NoInput, data |-> <<>>]

\* The sources handed to parse_any: every file with every content, and
\* in-memory inputs of every suffix under the display name 'stmt.csv'.
Sources ==
    {FromDisk(f, text) : f \in Files, text \in Texts}
    \cup {InMemory(ParseInput("stmt.csv", suffix, text)) :
              suffix \in InputSuffixes, text \in Texts}

\* ParseInput.from_path(fpath), the file holding `data`.
from_path(fpath, data) == ParseInput(fpath.name, Lower(fpath.suffix), data)

\* A variant of SourceInput that reads an in-memory input through the path
\* its display name stands for.
SourceInputByName(src) ==
    IF src.kind = "ParseInput"
    THEN [parse_input |-> from_path(PathOf(src.input.name), src.input.text),
          path_hint |-> NoPath]
    ELSE [parse_input |-> from_path(src.path, src.data), path_hint |-> src.path]

\* A variant of SourceInput that stores the lower-cased suffix in the
\* ParseInput it was given.
SourceInputLowered(src) ==
    IF src.kind = "ParseInput"
    THEN [parse_input |-> [src.input EXCEPT !.suffix = Lower(src.input.suffix)],
          path_hint |-> NoPath]
    ELSE [parse_input |-> from_path(src.path, src.data), path_hint |-> src.path]

\* The head of parse_any: the ParseInput and the path_hint for a source.
SourceInput(src) ==
    IF src.kind = "ParseInput"
    THEN [parse_input |-> src.input, path_hint |-> NoPath]
    ELSE [parse_input |-> from_path(src.path, src.data), path_hint |-> src.path]

NoResult == Returned(NotAStatement)
EmptyBehav == [s \in {} |-> NoResult]

\* Outcome of emit(): which signal, its boolean and its message.
Signal(name, flag, text) == [name |-> name, flag |-> flag, text |-> text]
NoSignal == Signal("", FALSE, "")

\* No PluginUpdateThread has been started.
ThreadIdle ==
    /\ tpc = "idle"
    /\ local_plugins = <<>>
    /\ server_plugins = <<>>
    /\ signal = NoSignal

\* Outcome of a match_search_string call.
NotCalled == [called |-> FALSE, err |-> FALSE, val |-> FALSE]
Called(r) == [called |-> TRUE, err |-> r.err, val |-> r.val]

\* No direct call of match_search_string.
MatcherIdle ==
    /\ mexpr = <<>>
    /\ mtext = <<>>
    /\ mres = NotCalled

\* No Statement in the hands of extract_statement.
LedgerIdle ==
    /\ extracted = NotAStatement
    /\ ledger = <<>>

\* Outcome of an update call: the value returned ("None", "True", "False")
\* or the exception raised.
UReturned(v) == [raised |-> FALSE, value |-> v, exc |-> NoExc]
URaised(e) == [raised |-> TRUE, value |-> "", exc |-> e]
NoUpdateResult == UReturned("")

\* Neither sync_plugins nor check_for_plugin_updates has been called.
UpdateIdle ==
    /\ ucall = "none"
    /\ upc = "idle"
    /\ progress = FALSE
    /\ local_list = <<>>
    /\ server_list = <<>>
    /\ new_plugins = <<>>
    /\ dl = 0
    /\ downloads = <<>>
    /\ uresult = NoUpdateResult

\* PluginManager.__init__
FreshManager ==
    /\ plugins = NoneVal
    /\ metadata = NoneVal
    /\ suffixes = {}
    /\ success = 0
    /\ lidx = 0
    /\ lpc = "idle"
    /\ load_log = <<>>

\* No parse_any call in progress.
NoCall ==
    /\ pc = "idle"
    /\ source = NoSource
    /\ parse_input = NoInput
    /\ path_hint = NoPath
    /\ router = "none"
    /\ consulted = FALSE
    /\ reader_open = FALSE
    /\ cands = <<>>
    /\ behav = EmptyBehav
    /\ idx = 0
    /\ errs = <<>>
    /\ calls = <<>>
    /\ phases = <<>>
    /\ result = NoResult

\* A freshly constructed PluginManager over a plugin directory.
Init ==
    /\ dir \in Listings(MaxDir)
    /\ FreshManager
    /\ NoCall
    /\ ThreadIdle
    /\ MatcherIdle
    /\ LedgerIdle
    /\ UpdateIdle

\* ------------------------------------------------------------------------
\* PluginManager.load_plugins
\* ------------------------------------------------------------------------

\* A variant of AfterArtifact in which an exception ends the scan.
AfterArtifactAbort(i, raised, n) == IF raised THEN n + 1 ELSE i + 1

\* Position of the scan of n artifacts after artifact i: the try/except is
\* inside the loop, so the loop goes on to the next artifact whether load_plugin
\* raised or not.
AfterArtifact(i, raised, n) == i + 1

\* A variant of FreshIndex that keeps the entries of an index that exists.
KeptIndex(old) == IF old.isNone THEN Dict(<<>>) ELSE old

\* `self.plugins = {}`, `self.metadata = {}`: a new, empty dict whatever the
\* attribute held.
FreshIndex(old) == Dict(<<>>)

\* load_plugins up to the start of the loop.
load_plugins_start ==
    /\ plugins' = FreshIndex(plugins)
    /\ metadata' = FreshIndex(metadata)
    /\ success' = 0
    /\ lidx' = 1
    /\ lpc' = "scan"
    /\ load_log' = <<>>
    /\ UNCHANGED <<dir, suffixes>>

\* load_plugins, up to the start of the loop.  load_plugins and parse_any run
\* on the same (GUI) thread, so neither starts while the other is running.
LoadStart ==
    /\ lpc = "idle"
    /\ pc = "idle"
    /\ upc = "idle"
    /\ load_plugins_start
    /\ UNCHANGED callvars
    /\ UNCHANGED <<threadvars, matchvars, ledgervars, updatevars>>

\* One iteration of the loop over plugin_dir.glob("*.pyc").
LoadArtifact ==
    /\ lpc = "scan"
    /\ lidx <= Len(dir)
    /\ LET plugin_file == dir[lidx]
           loaded == load_plugin(plugin_file)
       IN  IF loaded.raised
           THEN /\ load_log' = Append(load_log, [file |-> plugin_file.file, exc |-> loaded.exc])
                /\ UNCHANGED <<plugins, metadata, success>>
           ELSE /\ plugins' = DictSet(plugins, loaded.plugin_name, loaded.ParserClass)
                /\ metadata' = DictSet(metadata, loaded.plugin_name, loaded.metadata)
                /\ success' = success + 1
                /\ UNCHANGED load_log
    /\ lidx' = AfterArtifact(lidx, load_plugin(dir[lidx]).raised, Len(dir))
    /\ UNCHANGED <<dir, suffixes, lpc>>
    /\ UNCHANGED callvars
    /\ UNCHANGED <<threadvars, matchvars, ledgervars, updatevars>>

\* After the loop: the set of supported file extensions.
LoadFinish ==
    /\ lpc = "scan"
    /\ lidx > Len(dir)
    /\ suffixes' = {metadata.items[k].val.SUFFIX : k \in 1..Len(metadata.items)}
    /\ lpc' = "idle"
    /\ UNCHANGED <<dir, plugins, metadata, success, lidx, load_log>>
    /\ UNCHANGED callvars
    /\ UNCHANGED <<threadvars, matchvars, ledgervars, updatevars>>


\* ------------------------------------------------------------------------
\* BaseRouter
\* ------------------------------------------------------------------------

Selected(ids) == [raised |-> FALSE, exc |-> NoExc, plugins |-> ids]
SelectFailed(e) == [raised |-> TRUE, exc |-> e, plugins |-> <<>>]

\* The loop of select_parser over metadata.items(), from entry k on, with the
\* matches found so far, and the code after the loop.  A ValueError raised by
\* match_search_string leaves the loop.
RECURSIVE SelectLoop(_, _, _, _, _)
SelectLoop(items, k, text, suffix, found) ==
    IF k > Len(items)
    THEN IF found = <<>>
         THEN SelectFailed(Exc("ValueError", "Statement type not recognized.", <<>>))
         ELSE Selected(found)
    ELSE LET plugin_name == items[k].key
             md == items[k].val
         IN  IF suffix # <<>> /\ md.SUFFIX # suffix
             THEN SelectLoop(items, k + 1, text, suffix, found)
             ELSE LET m == match_search_string(md.SEARCH_STRING, text)
                  IN  IF m.err
                      THEN SelectFailed(Exc("ValueError", "Error in SEARCH_STRING", <<>>))
                      ELSE SelectLoop(items, k + 1, text, suffix,
                               IF m.val THEN Append(found, plugin_name) ELSE found)

\* BaseRouter.select_parser over the registry index md.
select_parser(md, text, suffix) ==
    IF md.isNone
    THEN SelectFailed(Exc("AttributeError", "'NoneType' object has no attribute 'items'", <<>>))
    ELSE SelectLoop(md.items, 1, text, suffix, <<>>)

\* The argument a router passes as plugin_name: one identity (str), or the
\* list select_parser returned.
Name(id) == [isList |-> FALSE, id |-> id, ids |-> <<>>]
NameList(ids) == [isList |-> TRUE, id |-> "", ids |-> ids]

NoClass == [name |-> "", module |-> ""]
Resolved(cls) == [raised |-> FALSE, exc |-> NoExc, cls |-> cls]
NotResolved(e) == [raised |-> TRUE, exc |-> e, cls |-> NoClass]

\* PluginManager.get_parser: self.plugins.get(plugin_id); a list is not
\* hashable, so dict.get raises TypeError for it.
get_parser(reg, plugin_id) ==
    IF reg.isNone
    THEN NotResolved(Exc("AttributeError", "'NoneType' object has no attribute 'get'", <<>>))
    ELSE IF plugin_id.isList
    THEN NotResolved(Exc("TypeError", "unhashable type: 'list'", <<>>))
    ELSE IF ~HasKey(reg, plugin_id.id)
    THEN NotResolved(Exc("ImportError", "Plugin not loaded.", <<plugin_id.id>>))
    ELSE Resolved(Lookup(reg, plugin_id.id))

\* BaseRouter.run_parser: `outcome` is what parser().parse(input_data) does.
run_parser(parser, outcome) ==
    IF outcome.raised
    THEN outcome
    ELSE IF outcome.value.type # "Statement"
    THEN Raised(Exc("TypeError", "did not return a Statement. Check its parse() method.",
                    <<parser.name>>))
    ELSE outcome

\* A variant of raise_on_defects that hands the statement back whatever the
\* validator reported.
raise_on_defects_ignored(statement, errors) == Returned(statement)

\* The end of extract_statement: `if errors: ... raise ValidationError(err)`,
\* else `return statement`.  (The ValidationErrorDialog shown before the raise
\* is modal GUI and changes nothing here.)
raise_on_defects(statement, errors) ==
    IF errors # <<>>
    THEN Raised(Exc("ValidationError", "defects", errors))
    ELSE Returned(statement)

\* A variant of ReconcileAll that reconciles the first account only.
ReconcileFirst(accounts) ==
    [k \in 1..Len(accounts) |->
        IF k = 1 THEN sort_and_compute_balances(accounts[k]) ELSE accounts[k]]

\* `for account in statement.accounts: account.sort_and_compute_balances()`
ReconcileAll(accounts) ==
    [k \in 1..Len(accounts) |-> sort_and_compute_balances(accounts[k])]

\* A variant of ReconcileAttachValidate that validates what the plugin
\* returned before reconciling it.
ValidateReconcileAttach(returned, fpath, plugin_name) ==
    LET errors == validate_statement(returned)
        reconciled == [returned EXCEPT !.accounts = ReconcileAll(returned.accounts)]
    IN  [statement |-> add_metadata(reconciled, fpath, plugin_name), errors |-> errors]

\* A variant of ReconcileAttachValidate without the add_metadata call: the
\* provenance stays as the plugin left it.
ReconcileValidate(returned, fpath, plugin_name) ==
    LET reconciled == [returned EXCEPT !.accounts = ReconcileAll(returned.accounts)]
    IN  [statement |-> reconciled, errors |-> validate_statement(reconciled)]

\* extract_statement between run_parser and `if errors:`: the loop over the
\* accounts, then add_metadata, then validate_statement, each on the object
\* the step before it left.
ReconcileAttachValidate(returned, fpath, plugin_name) ==
    LET reconciled == [returned EXCEPT !.accounts = ReconcileAll(returned.accounts)]
        statement == add_metadata(reconciled, fpath, plugin_name)
    IN  [statement |-> statement, errors |-> validate_statement(statement)]

Extraction(r, done, invoked) ==
    [raised |-> r.raised, value |-> r.value, exc |-> r.exc,
     phases |-> done, invoked |-> invoked]

\* BaseRouter.extract_statement over the registry index reg; outcome_of gives
\* what each plugin's parse() does on the router's input.  The result
\* records the phases gone through and the class whose parse() ran.
extract_statement(reg, plugin_name, outcome_of, fpath) ==
    LET got == get_parser(reg, plugin_name)
    IN  IF got.raised
        THEN Extraction(Raised(got.exc), <<"resolve">>, <<>>)
        ELSE
        LET outcome == outcome_of[got.cls.module]
            ran == run_parser(got.cls, outcome)
        IN  IF ran.raised
            THEN Extraction(ran,
                            IF outcome.raised THEN <<"resolve", "invoke">>
                            ELSE <<"resolve", "invoke", "check">>,
                            <<got.cls.module>>)
            ELSE
            LET end == ReconcileAttachValidate(ran.value, fpath, plugin_name.id)
                done == <<"resolve", "invoke", "check", "reconcile", "metadata", "validate">>
            IN  Extraction(raise_on_defects(end.statement, end.errors), done,
                           <<got.cls.module>>)

\* f"{plugin}: {e}"
ErrEntry(plugin, e) == [plugin |-> plugin, text |-> e.text, args |-> e.args]

\* A variant of FailedToParse that reports the last error only.
FailedToParseLastOnly(fpath, entries) ==
    [type |-> "ValueError", text |-> "Failed to parse", args |-> <<fpath>>,
     entries |-> <<entries[Len(entries)]>>]

\* ValueError(f"Failed to parse {self.fpath}: {err}"), err = "; ".join(errs)
FailedToParse(fpath, entries) ==
    [type |-> "ValueError", text |-> "Failed to parse", args |-> <<fpath>>,
     entries |-> entries]


\* ------------------------------------------------------------------------
\* parse_any and the routers
\* ------------------------------------------------------------------------

\* A variant of ChainStep without fallback: the first failure is final.
ChainStepNoFallback(raised, i, n) == IF ~raised THEN "return" ELSE "raise"

\* What the loop of PDFRouter.parse does after trying candidate i of n:
\* `return` the statement, `continue` with the next candidate, or `raise` the
\* aggregated error (enumerate counts from 0: i < len(plugins) - 1).
ChainStep(raised, i, n) ==
    IF ~raised THEN "return"
    ELSE IF i < n THEN "continue"
    ELSE "raise"

\* A variant of RouterKey that looks the suffix up as given.
RouterKeyAsGiven(suffix) == suffix

\* suffix = parse_input.suffix.lower()
RouterKey(suffix) == Lower(suffix)

\* self.fpath = path_hint or parse_input.path_hint, as the string that goes
\* into messages and metadata; ParseInput.path_hint is Path(self.name).
FpathOf(hint, input) == IF hint.isNone THEN input.name ELSE hint.path

Fpath == FpathOf(path_hint, parse_input)

\* parse_any(Session, plugin_manager, source): dispatch on the lower-cased
\* suffix; the router is instantiated, or ValueError is raised.
ParseAny(src) ==
    /\ pc = "idle"
    /\ lpc = "idle"
    /\ source' = src
    /\ parse_input' = SourceInput(src).parse_input
    /\ path_hint' = SourceInput(src).path_hint
    /\ LET sfx == RouterKey(SourceInput(src).parse_input.suffix)
       IN  IF sfx \in DOMAIN ROUTERS
           THEN /\ router' = ROUTERS[sfx]
                /\ pc' = "router"
                /\ result' = NoResult
           ELSE /\ router' = "none"
                /\ pc' = "done"
                /\ result' = Raised(Exc("ValueError", "Unsupported file suffix", <<>>))
    /\ UNCHANGED <<consulted, reader_open, cands, behav, idx, errs, calls, phases>>
    /\ UNCHANGED regvars
    /\ UNCHANGED <<threadvars, matchvars, ledgervars, updatevars>>

\* PDFReader as a context manager: __enter__ hands out the open document,
\* __exit__ closes it.  The value is whether the handle is open.
PDFReaderEntered == TRUE
PDFReaderExited == FALSE

\* A variant of ReaderAfter in which only a return closes the reader, as it
\* would without the `with` statement.
ReaderAfterLeak(step) == step # "return"

\* `with PDFReader(...) as reader:` the reader is open as long as control
\* stays in the block; a `return` and an exception both leave it through
\* __exit__.
ReaderAfter(step) == IF step = "continue" THEN PDFReaderEntered ELSE PDFReaderExited

\* PDFRouter.parse: `with PDFReader(self.parse_input.data, self.fpath) as
\* reader` is entered.
PDFRouterOpen ==
    /\ pc = "router"
    /\ router = "PDFRouter"
    /\ reader_open' = PDFReaderEntered
    /\ pc' = "reading"
    /\ UNCHANGED <<source, parse_input, path_hint, router, consulted, cands, behav,
                   idx, errs, calls, phases, result>>
    /\ UNCHANGED regvars
    /\ UNCHANGED <<threadvars, matchvars, ledgervars, updatevars>>

\* PDFRouter.parse inside the block, up to the loop: extract the text, select
\* the candidates.  An exception of select_parser leaves the `with` block.
PDFRouterSelect ==
    /\ pc = "reading"
    /\ consulted' = TRUE
    /\ LET sel == select_parser(metadata, parse_input.text, PDF)
       IN  IF sel.raised
           THEN /\ result' = Raised(sel.exc)
                /\ pc' = "done"
                /\ reader_open' = ReaderAfter("raise")
                /\ UNCHANGED <<cands, behav, idx, errs>>
           ELSE /\ cands' = sel.plugins
                /\ behav' \in [Range(sel.plugins) -> Outcomes]
                /\ idx' = 1
                /\ errs' = <<>>
                /\ reader_open' = ReaderAfter("continue")
                /\ pc' = "chain"
                /\ UNCHANGED result
    /\ UNCHANGED <<source, parse_input, path_hint, router, calls, phases>>
    /\ UNCHANGED regvars
    /\ UNCHANGED <<threadvars, matchvars, ledgervars, updatevars>>

\* One iteration of the loop of PDFRouter.parse over the candidates.
PDFRouterTry ==
    /\ pc = "chain"
    /\ LET plugin == cands[idx]
           ex == extract_statement(plugins, Name(plugin), behav, Fpath)
           errs1 == Append(errs, ErrEntry(plugin, ex.exc))
           step == ChainStep(ex.raised, idx, Len(cands))
       IN  /\ calls' = calls \o ex.invoked
           /\ phases' = ex.phases
           /\ reader_open' = ReaderAfter(step)
           /\ IF step = "return"
              THEN /\ result' = Returned(ex.value)
                   /\ pc' = "done"
                   /\ UNCHANGED <<idx, errs>>
              ELSE /\ errs' = errs1
                   /\ IF step = "continue"
                      THEN /\ idx' = idx + 1
                           /\ UNCHANGED <<pc, result>>
                      ELSE /\ result' = Raised(FailedToParse(Fpath, errs1))
                           /\ pc' = "done"
                           /\ UNCHANGED idx
    /\ UNCHANGED <<source, parse_input, path_hint, router, consulted, cands, behav>>
    /\ UNCHANGED regvars
    /\ UNCHANGED <<threadvars, matchvars, ledgervars, updatevars>>

\* CSVRouter.parse / XLSXRouter.parse: read the content, select, and hand
\* the value select_parser returned to extract_statement.
SingleCandidateParse(router_class, suffix) ==
    /\ pc = "router"
    /\ router = router_class
    /\ consulted' = TRUE
    /\ LET sel == select_parser(metadata, parse_input.text, suffix)
       IN  IF sel.raised
           THEN /\ result' = Raised(sel.exc)
                /\ UNCHANGED <<cands, behav, calls, phases>>
           ELSE \E outcome_of \in [Range(sel.plugins) -> Outcomes] :
                LET ex == extract_statement(plugins, NameList(sel.plugins),
                                            outcome_of, Fpath)
                IN  /\ cands' = sel.plugins
                    /\ behav' = outcome_of
                    /\ calls' = calls \o ex.invoked
                    /\ phases' = ex.phases
                    /\ result' = IF ex.raised THEN Raised(ex.exc) ELSE Returned(ex.value)
    /\ pc' = "done"
    /\ UNCHANGED <<source, parse_input, path_hint, router, reader_open, idx, errs>>
    /\ UNCHANGED regvars
    /\ UNCHANGED <<threadvars, matchvars, ledgervars, updatevars>>

CSVRouterParse == SingleCandidateParse("CSVRouter", CSV)

XLSXRouterParse == SingleCandidateParse("XLSXRouter", XLSX)

\* The caller takes the outcome of parse_any; the next call starts afresh.
Return ==
    /\ pc = "done"
    /\ pc' = "idle"
    /\ source' = NoSource
    /\ parse_input' = NoInput
    /\ path_hint' = NoPath
    /\ router' = "none"
    /\ consulted' = FALSE
    /\ reader_open' = FALSE
    /\ cands' = <<>>
    /\ behav' = EmptyBehav
    /\ idx' = 0
    /\ errs' = <<>>
    /\ calls' = <<>>
    /\ phases' = <<>>
    /\ result' = NoResult
    /\ UNCHANGED regvars
    /\ UNCHANGED <<threadvars, matchvars, ledgervars, updatevars>>

Next ==
    \/ LoadStart
    \/ LoadArtifact
    \/ LoadFinish
    \/ \E src \in Sources : ParseAny(src)
    \/ PDFRouterOpen
    \/ PDFRouterSelect
    \/ PDFRouterTry
    \/ CSVRouterParse
    \/ XLSXRouterParse
    \/ Return

Spec == Init /\ [][Next]_vars


\* ------------------------------------------------------------------------
\* PluginUpdateThread and a reload running beside it
\* ------------------------------------------------------------------------

\* An entry of the list api_client.list_plugins() returns: the metadata the
\* server keeps for a compiled plugin, which build_plugins names
\* <PLUGIN_NAME>.pyc.
ServerPlugin(name, version) ==
    [PLUGIN_NAME |-> name, VERSION |-> version,
     FILENAME |-> (CHOOSE a \in ArtifactPool : a.stem = name).file]

\* An entry without PLUGIN_NAME, as a server of another version may send.
UnnamedPlugin == [VERSION |-> "0.1.0", FILENAME |-> "pdf_a.pyc"]

\* What api_client.list_plugins() may return.
ServerLists ==
    { <<>>,
      <<ServerPlugin("pdf_a", "0.1.0")>>,
      <<ServerPlugin("pdf_a", "0.2.0"), ServerPlugin("csv_c", "0.1.0")>>,
      <<ServerPlugin("pdf_c", "0.1.0"), ServerPlugin("csv_c", "0.1.0"),
        ServerPlugin("pdf_a", "0.2.0")>>,
      <<UnnamedPlugin>> }

\* Position of a version string in the order of versions.
VersionRank(version) ==
    CASE version = "0.1.0" -> 1
      [] version = "0.2.0" -> 2
      [] OTHER -> 0

\* is_newer_version(local_version, server_version)
is_newer_version(local_version, server_version) ==
    VersionRank(local_version) < VersionRank(server_version)

Compared(new) == [raised |-> FALSE, exc |-> NoExc, new_plugins |-> new]
CompareFailed(e) == [raised |-> TRUE, exc |-> e, new_plugins |-> <<>>]

\* compare_plugins: the server plugins that are missing locally or newer than
\* the first local plugin of the same name, in server order;
\* server_plugin["PLUGIN_NAME"] raises KeyError for an entry without the key.
compare_plugins(local, server) ==
    LET IsNew(server_plugin) ==
            LET same == {k \in 1..Len(local) :
                            local[k].PLUGIN_NAME = server_plugin.PLUGIN_NAME}
            IN  \/ same = {}
                \/ is_newer_version(
                       local[CHOOSE k \in same : \A j \in same : k <= j].VERSION,
                       server_plugin.VERSION)
    IN  IF \E k \in 1..Len(server) : "PLUGIN_NAME" \notin DOMAIN server[k]
        THEN CompareFailed(Exc("KeyError", "'PLUGIN_NAME'", <<>>))
        ELSE Compared(SelectSeq(server, IsNew))

\* [plugin for plugin in plugin_manager.metadata.values()]
Values(d) == [k \in 1..Len(d.items) |-> d.items[k].val]

\* QThread.start() on a new PluginUpdateThread.
ThreadStart ==
    /\ tpc \in {"idle", "finished"}
    /\ tpc' = "run"
    /\ local_plugins' = <<>>
    /\ server_plugins' = <<>>
    /\ signal' = NoSignal
    /\ UNCHANGED <<regvars, callvars, matchvars, ledgervars, updatevars>>

\* PluginUpdateThread.run, get_plugin_lists: read the registry's metadata
\* index and ask the server for its list.  On a manager that was never loaded
\* metadata is None and .values() raises; the request to the server may
\* raise: both end in the except clause of run.
ThreadGetLists ==
    /\ tpc = "run"
    /\ \/ /\ metadata.isNone
          /\ signal' = Signal("update_complete", FALSE, "Plugin update Failed:")
          /\ tpc' = "finished"
          /\ UNCHANGED <<local_plugins, server_plugins>>
       \/ /\ ~metadata.isNone
          /\ local_plugins' = Values(metadata)
          /\ \/ /\ server_plugins' \in ServerLists
                /\ tpc' = "compare"
                /\ UNCHANGED signal
             \/ /\ signal' = Signal("update_complete", FALSE, "Plugin update Failed:")
                /\ tpc' = "finished"
                /\ UNCHANGED server_plugins
    /\ UNCHANGED <<regvars, callvars, matchvars, ledgervars, updatevars>>

\* A variant of RunSignal that reports an exception of compare_plugins as
\* 'up to date'.
RunSignalQuiet(compared) ==
    IF ~compared.raised /\ compared.new_plugins # <<>>
    THEN Signal("update_available", TRUE, "")
    ELSE Signal("update_complete", TRUE, "Plugins are up to date.")

\* PluginUpdateThread.run after compare_plugins: the signal of the if/else,
\* or that of the except clause.
RunSignal(compared) ==
    IF compared.raised
    THEN Signal("update_complete", FALSE, "Plugin update Failed:")
    ELSE IF compared.new_plugins # <<>>
    THEN Signal("update_available", TRUE, "")
    ELSE Signal("update_complete", TRUE, "Plugins are up to date.")

\* PluginUpdateThread.run after get_plugin_lists: compare and emit.
ThreadEmit ==
    /\ tpc = "compare"
    /\ signal' = RunSignal(compare_plugins(local_plugins, server_plugins))
    /\ tpc' = "finished"
    /\ UNCHANGED <<local_plugins, server_plugins>>
    /\ UNCHANGED <<regvars, callvars, matchvars, ledgervars, updatevars>>

\* load_plugins statement by statement, as another thread sees it.
\* `self.plugins = {}`
ClearPlugins ==
    /\ lpc = "idle"
    /\ plugins' = FreshIndex(plugins)
    /\ lpc' = "cleared"
    /\ UNCHANGED <<dir, metadata, suffixes, success, lidx, load_log>>
    /\ UNCHANGED <<callvars, threadvars, matchvars, ledgervars, updatevars>>

\* `self.metadata = {}`, `success = 0`, start of the loop.
ClearMetadata ==
    /\ lpc = "cleared"
    /\ metadata' = FreshIndex(metadata)
    /\ success' = 0
    /\ lidx' = 1
    /\ load_log' = <<>>
    /\ lpc' = "scan"
    /\ UNCHANGED <<dir, plugins, suffixes>>
    /\ UNCHANGED <<callvars, threadvars, matchvars, ledgervars, updatevars>>

\* `plugin_id, ParserClass, metadata = load_plugin(plugin_file)` and
\* `self.plugins[plugin_id] = ParserClass`, or the except clause.
StorePlugin ==
    /\ lpc = "scan"
    /\ lidx <= Len(dir)
    /\ LET loaded == load_plugin(dir[lidx])
       IN  IF loaded.raised
           THEN /\ load_log' = Append(load_log, [file |-> dir[lidx].file, exc |-> loaded.exc])
                /\ lidx' = AfterArtifact(lidx, TRUE, Len(dir))
                /\ UNCHANGED <<plugins, lpc>>
           ELSE /\ plugins' = DictSet(plugins, loaded.plugin_name, loaded.ParserClass)
                /\ lpc' = "store"
                /\ UNCHANGED <<load_log, lidx>>
    /\ UNCHANGED <<dir, metadata, suffixes, success>>
    /\ UNCHANGED <<callvars, threadvars, matchvars, ledgervars, updatevars>>

\* `self.metadata[plugin_id] = metadata`, `success += 1`.
StoreMetadata ==
    /\ lpc = "store"
    /\ LET loaded == load_plugin(dir[lidx])
       IN  metadata' = DictSet(metadata, loaded.plugin_name, loaded.metadata)
    /\ success' = success + 1
    /\ lidx' = AfterArtifact(lidx, FALSE, Len(dir))
    /\ lpc' = "scan"
    /\ UNCHANGED <<dir, plugins, suffixes, load_log>>
    /\ UNCHANGED <<callvars, threadvars, matchvars, ledgervars, updatevars>>

\* The GUI thread loads and reloads the registry while PluginUpdateThread
\* objects run: the interpreter may switch threads between any two statements.
NextConcurrent ==
    \/ ClearPlugins
    \/ ClearMetadata
    \/ StorePlugin
    \/ StoreMetadata
    \/ LoadFinish
    \/ ThreadStart
    \/ ThreadGetLists
    \/ ThreadEmit

SpecConcurrent == Init /\ [][NextConcurrent]_vars


\* ------------------------------------------------------------------------
\* sync_plugins, download_plugin and check_for_plugin_updates
\* ------------------------------------------------------------------------

\* Plugin directories of an installation: listings of released plugins, one
\* of them with a file that does not import.
Installed ==
    {l \in Listings(MaxDir) :
        \A k \in 1..Len(l) :
            l[k].stem \in {"pdf_a", "pdf_c", "csv_c", "xlsx_x", "bad_import"}}

\* The file the server streams for an entry of its list.
Served(plugin) ==
    [(CHOOSE a \in ArtifactPool : a.file = plugin.FILENAME)
        EXCEPT !.VERSION = plugin.VERSION]

\* The directory d after `file` was written under its name: in place of the
\* file of that name, or as a new entry.
WriteFile(d, file) ==
    IF \E k \in 1..Len(d) : d[k].file = file.file
    THEN [k \in 1..Len(d) |-> IF d[k].file = file.file THEN file ELSE d[k]]
    ELSE Append(d, file)

\* A file of which only a part was written.
Truncated(file) == [file EXCEPT !.module = "truncated"]

\* How a download_plugin call may go: everything is written; mkdir or open
\* raises; the stream raises after dpath.open("wb").
DownloadOutcomes == {"ok", "open_failed", "stream_failed"}

\* download_plugin(plugin["FILENAME"]) on the directory d: open("wb") creates
\* the file or empties the one that exists, the chunks are written as they
\* arrive, and an exception is logged and raised again.
download_plugin(d, plugin, outcome) ==
    CASE outcome = "ok" ->
             [raised |-> FALSE, exc |-> NoExc, dir |-> WriteFile(d, Served(plugin))]
      [] outcome = "open_failed" ->
             [raised |-> TRUE, exc |-> Exc("OSError", "open", <<plugin.FILENAME>>),
              dir |-> d]
      [] OTHER ->
             [raised |-> TRUE, exc |-> Exc("ConnectionError", "stream", <<plugin.FILENAME>>),
              dir |-> WriteFile(d, Truncated(Served(plugin)))]

\* sync_plugins(local_plugins, server_plugins, progress) up to the loop: the
\* lists are those a caller gets from the loaded registry and the server.
SyncPlugins(server, flag) ==
    /\ upc = "idle"
    /\ lpc = "idle"
    /\ ~metadata.isNone
    /\ ucall' = "sync_plugins"
    /\ progress' = flag
    /\ local_list' = Values(metadata)
    /\ server_list' = server
    /\ LET compared == compare_plugins(Values(metadata), server)
       IN  IF compared.raised
           THEN /\ uresult' = URaised(compared.exc)
                /\ upc' = "done"
                /\ UNCHANGED <<new_plugins, dl>>
           ELSE /\ new_plugins' = compared.new_plugins
                /\ dl' = 1
                /\ upc' = "download"
                /\ UNCHANGED uresult
    /\ UNCHANGED downloads
    /\ UNCHANGED <<regvars, callvars, threadvars, matchvars, ledgervars>>

\* One iteration of `for plugin in new_plugins`: dialog.setLabelText, where
\* the name dialog is bound only if progress was true, then download_plugin.
SyncDownload ==
    /\ upc = "download"
    /\ dl <= Len(new_plugins)
    /\ IF ~progress
       THEN /\ uresult' = URaised(Exc("UnboundLocalError", "dialog", <<>>))
            /\ upc' = "done"
            /\ UNCHANGED <<dir, dl, downloads>>
       ELSE \E outcome \in DownloadOutcomes :
                LET plugin == new_plugins[dl]
                    got == download_plugin(dir, plugin, outcome)
                IN  /\ dir' = got.dir
                    /\ downloads' = Append(downloads,
                                        [file |-> plugin.FILENAME, ok |-> ~got.raised])
                    /\ IF got.raised
                       THEN /\ uresult' = URaised(got.exc)
                            /\ upc' = "done"
                            /\ UNCHANGED dl
                       ELSE /\ dl' = dl + 1
                            /\ UNCHANGED <<uresult, upc>>
    /\ UNCHANGED <<ucall, progress, local_list, server_list, new_plugins>>
    /\ UNCHANGED <<plugins, metadata, suffixes, success, lidx, lpc, load_log>>
    /\ UNCHANGED <<callvars, threadvars, matchvars, ledgervars>>

\* The end of sync_plugins: back to the caller, or to
\* check_for_plugin_updates, which goes on to load_plugins.
SyncReturn ==
    /\ upc = "download"
    /\ dl > Len(new_plugins)
    /\ IF ucall = "sync_plugins"
       THEN /\ uresult' = UReturned("None")
            /\ upc' = "done"
       ELSE /\ upc' = "reload"
            /\ UNCHANGED uresult
    /\ UNCHANGED <<ucall, progress, local_list, server_list, new_plugins, dl, downloads>>
    /\ UNCHANGED <<regvars, callvars, threadvars, matchvars, ledgervars>>

\* A variant of AnyNew that looks at the first server plugin only.
FirstNew(local, server) ==
    LET compared == compare_plugins(local, server)
    IN  IF compared.raised \/ server = <<>> THEN compared
        ELSE Compared(SelectSeq(compared.new_plugins, LAMBDA p : p = server[1]))

\* `new_plugins = compare_plugins(local_plugins, server_plugins)` of
\* check_for_plugin_updates.
AnyNew(local, server) == compare_plugins(local, server)

\* check_for_plugin_updates up to `if new_plugins:`; with new plugins it calls
\* sync_plugins(local_plugins, server_plugins, progress=True), otherwise it
\* returns False.  On a manager that was never loaded metadata is None; the
\* request to the server may raise.
CheckForPluginUpdates ==
    /\ upc = "idle"
    /\ lpc = "idle"
    /\ ucall' = "check_for_plugin_updates"
    /\ \/ /\ metadata.isNone
          /\ uresult' = URaised(Exc("AttributeError",
                                    "'NoneType' object has no attribute 'values'", <<>>))
          /\ upc' = "done"
          /\ UNCHANGED <<progress, local_list, server_list, new_plugins, dl>>
       \/ /\ ~metadata.isNone
          /\ local_list' = Values(metadata)
          /\ \/ /\ uresult' = URaised(Exc("ConnectionError", "list_plugins", <<>>))
                /\ upc' = "done"
                /\ UNCHANGED <<progress, server_list, new_plugins, dl>>
             \/ \E server \in ServerLists :
                    LET compared == AnyNew(Values(metadata), server)
                    IN  /\ server_list' = server
                        /\ IF compared.raised
                           THEN /\ uresult' = URaised(compared.exc)
                                /\ upc' = "done"
                                /\ UNCHANGED <<progress, new_plugins, dl>>
                           ELSE IF compared.new_plugins # <<>>
                           THEN /\ progress' = TRUE
                                /\ new_plugins' = compare_plugins(Values(metadata), server).new_plugins
                                /\ dl' = 1
                                /\ upc' = "download"
                                /\ UNCHANGED uresult
                           ELSE /\ uresult' = UReturned("False")
                                /\ upc' = "done"
                                /\ UNCHANGED <<progress, new_plugins, dl>>
    /\ UNCHANGED downloads
    /\ UNCHANGED <<regvars, callvars, threadvars, matchvars, ledgervars>>

\* check_for_plugin_updates: `plugin_manager.load_plugins()` begins.
CheckReload ==
    /\ upc = "reload"
    /\ lpc = "idle"
    /\ load_plugins_start
    /\ upc' = "reloading"
    /\ UNCHANGED <<ucall, progress, local_list, server_list, new_plugins, dl,
                   downloads, uresult>>
    /\ UNCHANGED <<callvars, threadvars, matchvars, ledgervars>>

\* check_for_plugin_updates: load_plugins has returned, `return True`.
CheckReturn ==
    /\ upc = "reloading"
    /\ lpc = "idle"
    /\ uresult' = UReturned("True")
    /\ upc' = "done"
    /\ UNCHANGED <<ucall, progress, local_list, server_list, new_plugins, dl, downloads>>
    /\ UNCHANGED <<regvars, callvars, threadvars, matchvars, ledgervars>>

\* load_plugins called again after the update call has ended.
LoadAgain ==
    /\ upc \in {"done", "later"}
    /\ lpc = "idle"
    /\ load_plugins_start
    /\ upc' = "later"
    /\ UNCHANGED <<ucall, progress, local_list, server_list, new_plugins, dl,
                   downloads, uresult>>
    /\ UNCHANGED <<callvars, threadvars, matchvars, ledgervars>>

InitUpdate ==
    /\ dir \in Installed
    /\ FreshManager
    /\ NoCall
    /\ ThreadIdle
    /\ MatcherIdle
    /\ LedgerIdle
    /\ UpdateIdle

\* One update call on the GUI thread, before or after the registry was
\* loaded, and the loads that follow it.
NextUpdate ==
    \/ LoadStart
    \/ LoadArtifact
    \/ LoadFinish
    \/ \E server \in ServerLists, flag \in BOOLEAN : SyncPlugins(server, flag)
    \/ SyncDownload
    \/ SyncReturn
    \/ CheckForPluginUpdates
    \/ CheckReload
    \/ CheckReturn
    \/ LoadAgain

SpecUpdate == InitUpdate /\ [][NextUpdate]_vars

\* PluginUpdateThread objects run next to the GUI thread's loads and its
\* check_for_plugin_updates call.
NextThread ==
    \/ LoadStart
    \/ LoadArtifact
    \/ LoadFinish
    \/ CheckForPluginUpdates
    \/ SyncDownload
    \/ SyncReturn
    \/ CheckReload
    \/ CheckReturn
    \/ ThreadStart
    \/ ThreadGetLists
    \/ ThreadEmit

SpecThread == InitUpdate /\ [][NextThread]_vars


\* ------------------------------------------------------------------------
\* match_search_string on its own
\* ------------------------------------------------------------------------

\* What generated expressions are made of.  "sharp_s" stands for the one
\* character U+00DF, which str.lower() leaves alone and str.upper() turns
\* into "SS".
Pieces ==
    { <<"a">>, <<"B">>, <<"sharp_s">>, <<"&", "&">>, <<"|", "|">>,
      <<"(">>, <<")">>, <<"\"">>, <<" ">> }

\* All concatenations of up to n pieces.
RECURSIVE Concats(_)
Concats(n) ==
    IF n = 0 THEN {<<>>}
    ELSE LET shorter == Concats(n - 1)
         IN  shorter \cup {e \o piece : e \in shorter, piece \in Pieces}

\* "a" && "b" || "c"
ExprAndOr ==
    <<"\"", "a", "\"", " ", "&", "&", " ", "\"", "b", "\"", " ", "|", "|", " ",
      "\"", "c", "\"">>

\* "a" && ("b" || "c")
ExprAndGroup ==
    <<"\"", "a", "\"", " ", "&", "&", " ", "(", "\"", "b", "\"", " ", "|", "|",
      " ", "\"", "c", "\"", ")">>

\* "a" && "b"
ExprAnd == <<"\"", "a", "\"", " ", "&", "&", " ", "\"", "b", "\"">>

\* "at&t"
ExprQuoted == <<"\"", "a", "t", "&", "t", "\"">>

\* a&&b||c
ExprBare == <<"a", "&", "&", "b", "|", "|", "c">>

\* a && B
ExprSpaced == <<"a", " ", "&", "&", " ", "B">>

\* a&& (B)
ExprSpacedGroup == <<"a", "&", "&", " ", "(", "B", ")">>

Expressions ==
    Concats(MaxPieces)
    \cup {ExprAndOr, ExprAndGroup, ExprAnd, ExprQuoted, ExprBare, ExprSpaced, ExprSpacedGroup}

\* Texts matched against: 'a and b present', 'only a', 'AT&T statement',
\* 'c', 'a&&B', the character U+00DF, and the empty text.
MatchTexts ==
    { <<"a", " ", "a", "n", "d", " ", "b", " ", "p", "r", "e", "s", "e", "n", "t">>,
      <<"o", "n", "l", "y", " ", "a">>,
      <<"A", "T", "&", "T", " ", "s", "t", "a", "t", "e", "m", "e", "n", "t">>,
      <<"c">>,
      <<"a", "&", "&", "B">>,
      <<"sharp_s">>,
      <<>> }

InitMatcher ==
    /\ dir = <<>>
    /\ FreshManager
    /\ NoCall
    /\ ThreadIdle
    /\ LedgerIdle
    /\ UpdateIdle
    /\ mexpr \in Expressions
    /\ mtext \in MatchTexts
    /\ mres = NotCalled

\* One call match_search_string(mexpr, mtext).
Match ==
    /\ ~mres.called
    /\ mres' = Called(match_search_string(mexpr, mtext))
    /\ UNCHANGED <<mexpr, mtext>>
    /\ UNCHANGED <<regvars, callvars, threadvars, ledgervars, updatevars>>

NextMatcher == Match

SpecMatcher == InitMatcher /\ [][NextMatcher]_vars


\* ------------------------------------------------------------------------
\* The reconcile loop of extract_statement on its own
\* ------------------------------------------------------------------------

\* Transactions as a plugin may append them: any date order, any amount, and
\* a balance column the plugin filled in (7) or left empty (0 stands for None).
PluginTxns == {Txn(date, amount, balance) :
                  date \in {1, 2}, amount \in {-2, 1, 3}, balance \in {0, 7}}

\* All transaction lists of up to n transactions.
RECURSIVE TxnLists(_)
TxnLists(n) ==
    IF n = 0 THEN {<<>>}
    ELSE LET shorter == TxnLists(n - 1)
         IN  shorter \cup {Append(l, t) : l \in shorter, t \in PluginTxns}

\* A second account, its transactions out of date order.
OtherAccount == Account(0, 4, <<Txn(2, 3, 7), Txn(1, 1, 7)>>)

\* The account lists of the Statements plugins return: one generated account,
\* alone or beside the second one.
PluginAccounts ==
    LET generated == {Account(10, 10, l) : l \in TxnLists(MaxTxns)}
    IN  {<<a>> : a \in generated}
        \cup {<<a, OtherAccount>> : a \in generated}
        \cup {<<OtherAccount, a>> : a \in generated}

InitLedger ==
    /\ dir = <<>>
    /\ FreshManager
    /\ NoCall
    /\ ThreadIdle
    /\ MatcherIdle
    /\ UpdateIdle
    /\ extracted \in {Statement(1, 2, accounts) : accounts \in PluginAccounts}
    /\ ledger = <<>>

\* extract_statement from the Statement run_parser returned to the end of the
\* loop over its accounts.
Reconcile ==
    /\ ledger = <<>>
    /\ ledger' = ReconcileAll(extracted.accounts)
    /\ UNCHANGED extracted
    /\ UNCHANGED <<regvars, callvars, threadvars, matchvars, updatevars>>

NextLedger == Reconcile

SpecLedger == InitLedger /\ [][NextLedger]_vars


\* ------------------------------------------------------------------------
\* Properties
\* ------------------------------------------------------------------------

\* What extract_statement gives for candidate c on the document of the call.
ExtractionOf(c) == extract_statement(plugins, Name(c), behav, Fpath)

InPDFChain == router = "PDFRouter" /\ cands # <<>>

\* C1: PDFRouter.parse invokes the candidates returned by select_parser in
\* the returned order, each at most once; it returns the Statement of the
\* first candidate whose extraction completes without error and invokes no
\* candidate after it; so whenever some candidate's extraction can succeed,
\* the call succeeds.
C1_FallbackChainOrder ==
    InPDFChain =>
        /\ Len(calls) <= Len(cands)
        /\ calls = SubSeq(cands, 1, Len(calls))
        /\ \A k \in 1..Len(calls) : k < Len(calls) => ExtractionOf(cands[k]).raised
        /\ (pc = "done" /\ ~result.raised) =>
               /\ calls # <<>>
               /\ ~ExtractionOf(calls[Len(calls)]).raised
               /\ result.value = ExtractionOf(calls[Len(calls)]).value
        /\ (pc = "done" /\ \E k \in 1..Len(cands) : ~ExtractionOf(cands[k]).raised) =>
               ~result.raised

\* C1 witness: the first candidate failed and the second one's Statement was
\* returned.
C1_Witness ==
    /\ InPDFChain
    /\ pc = "done"
    /\ ~result.raised
    /\ Len(calls) = 2
    /\ result.value.metadata.plugin = cands[2]

\* C2: when every candidate's extraction fails, PDFRouter.parse fails with
\* one aggregated error holding, for every candidate in attempt order, exactly
\* one entry pairing the plugin identity with its own error text; the failure
\* is raised only after the last candidate has been tried.
C2_AggregatedFailure ==
    /\ (InPDFChain /\ pc = "done" /\ \A k \in 1..Len(cands) : ExtractionOf(cands[k]).raised) =>
           /\ result.raised
           /\ result.exc.type = "ValueError"
           /\ result.exc.text = "Failed to parse"
           /\ Len(result.exc.entries) = Len(cands)
           /\ \A k \in 1..Len(cands) :
                  result.exc.entries[k] =
                      [plugin |-> cands[k],
                       text |-> ExtractionOf(cands[k]).exc.text,
                       args |-> ExtractionOf(cands[k]).exc.args]
    /\ (InPDFChain /\ result.raised) => (pc = "done" /\ calls = cands)

\* C2 witness: three candidates failed, the first two with different errors,
\* and the aggregated error was raised.
C2_Witness ==
    /\ InPDFChain
    /\ pc = "done"
    /\ result.raised
    /\ Len(result.exc.entries) = 3
    /\ result.exc.entries[1].text # result.exc.entries[2].text


\* A load has completed and none is running.
RegistryReady == lpc = "idle" /\ ~metadata.isNone

\* The plugin with metadata md declares the suffix (when one is given) and its
\* match expression matches the text.
Matches(md, text, suffix) ==
    /\ suffix = <<>> \/ md.SUFFIX = suffix
    /\ LET m == match_search_string(md.SEARCH_STRING, text)
       IN  ~m.err /\ m.val

\* Identities of the loaded plugins that match, in registry iteration order.
Matching(text, suffix) ==
    LET Hit(item) == Matches(item.val, text, suffix)
        hits == SelectSeq(metadata.items, Hit)
    IN  [k \in 1..Len(hits) |-> hits[k].key]

SuffixOf(router_class) ==
    IF router_class = "PDFRouter" THEN PDF
    ELSE IF router_class = "CSVRouter" THEN CSV
    ELSE XLSX

\* C3: for every registry index and every text, select_parser(text, suffix)
\* returns exactly the identities of the loaded plugins of that suffix whose
\* match expression matches the text, in registry iteration order; it never
\* returns an empty list but fails with Unrecognized when no plugin matches,
\* and several matches are returned, not an error.
C3_SelectParserContract ==
    RegistryReady =>
        \A text \in Texts, suffix \in {PDF, CSV, XLSX, <<>>} :
            LET expected == Matching(text, suffix)
                sel == select_parser(metadata, text, suffix)
            IN  IF expected = <<>>
                THEN sel.raised /\ sel.exc.text = "Statement type not recognized."
                ELSE ~sel.raised /\ sel.plugins = expected

\* C4: a malformed match expression is never propagated to the caller at
\* match time: over a registry produced by load_plugins, a call that got as
\* far as select_parser and found no candidate fails with Unrecognized, and one
\* plugin's invalid expression does not keep the other plugins from matching.
C4_MalformedNotPropagated ==
    (pc = "done" /\ consulted /\ ~metadata.isNone) =>
        /\ (result.raised /\ cands = <<>>) =>
               result.exc.text = "Statement type not recognized."
        /\ Matching(parse_input.text, SuffixOf(router)) # <<>> =>
               cands = Matching(parse_input.text, SuffixOf(router))

\* C5: under the single-candidate policy (CSV and spreadsheet routers), when
\* exactly one loaded plugin matches, that plugin is resolved from the
\* registry, invoked, and its validated Statement is returned.
C5_SingleCandidateExtracts ==
    (/\ pc = "done"
     /\ router \in {"CSVRouter", "XLSXRouter"}
     /\ ~metadata.isNone
     /\ Len(Matching(parse_input.text, SuffixOf(router))) = 1
     /\ Len(cands) = 1
     /\ behav[cands[1]] = Returned(GoodStatement)) =>
        /\ ~result.raised
        /\ calls = cands
        /\ result.value.metadata.plugin = cands[1]
        /\ validate_statement(result.value) = <<>>


\* C6: no call returns a Statement with outstanding defects: a Statement
\* returned by parse_any is reconciled and validate_statement finds no defect
\* in it, whatever the router and the candidates tried before.
C6_NoDefectsReturned ==
    (pc = "done" /\ ~result.raised) =>
        /\ result.value.type = "Statement"
        /\ validate_statement(result.value) = <<>>
        /\ \A k \in 1..Len(result.value.accounts) :
               result.value.accounts[k] =
                   sort_and_compute_balances(result.value.accounts[k])

\* C6 witness: a Statement was returned after an earlier candidate's
\* Statement had failed validation.
C6_Witness ==
    /\ pc = "done"
    /\ ~result.raised
    /\ result.value.type = "Statement"
    /\ Len(errs) >= 1
    /\ errs[1].text = "defects"

\* C7: when validation reports defects for a plugin's Statement, the call
\* aborts with ValidationFailed carrying the full defect list, in every
\* router: the error that reaches the caller of parse_any is a
\* ValidationError.
C7_ValidationFailedReachesCaller ==
    /\ (pc = "done" /\ calls # <<>>
            /\ ExtractionOf(calls[Len(calls)]).exc.type = "ValidationError") =>
           /\ result.raised
           /\ result.exc.type = "ValidationError"
           /\ result.exc.args = ExtractionOf(calls[Len(calls)]).exc.args
    /\ \A k \in 1..Len(calls) :
           ExtractionOf(calls[k]).exc.type = "ValidationError" => k = Len(calls)
    /\ (pc = "done" /\ router \in {"CSVRouter", "XLSXRouter"} /\ Len(cands) = 1
            /\ behav[cands[1]] = Returned(UnbalancedStatement)) =>
           (result.raised /\ result.exc.type = "ValidationError")

\* C8: when a plugin's parse() returns anything but a Statement, extraction
\* fails with a ContractViolation (TypeError) whose message names the
\* offending plugin by its identity, and the returned value is neither
\* reconciled, nor given provenance, nor validated.
C8_ContractViolationNamesPlugin ==
    \A k \in 1..Len(calls) :
        (behav[calls[k]] = Returned(NotAStatement) /\ k <= Len(errs)) =>
            /\ errs[k].plugin = calls[k]
            /\ errs[k].text = "did not return a Statement. Check its parse() method."
            /\ errs[k].args = <<calls[k]>>
            /\ k = Len(calls) => phases = <<"resolve", "invoke", "check">>

\* C9: parse_any dispatches on the lower-cased suffix: a registered suffix
\* gets exactly its router class, whatever the case of the input's suffix;
\* any other suffix fails with UnsupportedFormat (ValueError) and no router is
\* instantiated, the registry index is not consulted and no plugin is invoked.
C9_Dispatch ==
    pc # "idle" =>
        LET sfx == Lower(parse_input.suffix)
        IN  IF sfx = PDF THEN router = "PDFRouter"
            ELSE IF sfx = CSV THEN router = "CSVRouter"
            ELSE IF sfx = XLSX THEN router = "XLSXRouter"
            ELSE /\ router = "none"
                 /\ pc = "done"
                 /\ result.raised
                 /\ result.exc.type = "ValueError"
                 /\ result.exc.text = "Unsupported file suffix"
                 /\ ~consulted
                 /\ cands = <<>>
                 /\ calls = <<>>

\* C9 witness: a document with suffix '.PDF' went through the PDF router and
\* its Statement was returned.
C9_Witness ==
    /\ pc = "done"
    /\ parse_input.suffix = <<".", "P", "D", "F">>
    /\ router = "PDFRouter"
    /\ calls # <<>>
    /\ ~result.raised

\* An artifact that imports, has an IParser Parser and all required metadata.
ValidArtifact(a) == a.module = "ok" /\ validate_parser(a)

\* C10: during load_plugins an artifact that fails to load or validate is
\* logged and skipped; every valid artifact of the directory is loaded and
\* indexed wherever the bad one stands in the scan, and the load completes.
C10_BadArtifactSkipped ==
    ~plugins.isNone =>
        /\ lpc = "scan" => lidx \in 1..(Len(dir) + 1)
        /\ \A k \in 1..Len(dir) :
               (lpc = "idle" \/ k < lidx) =>
                   IF ValidArtifact(dir[k])
                   THEN /\ HasKey(plugins, dir[k].stem)
                        /\ HasKey(metadata, dir[k].stem)
                        /\ Lookup(plugins, dir[k].stem) = ParserClassOf(dir[k])
                        /\ Lookup(metadata, dir[k].stem) = Metadata(dir[k])
                   ELSE /\ ~HasKey(plugins, dir[k].stem)
                        /\ ~HasKey(metadata, dir[k].stem)
                        /\ \E j \in 1..Len(load_log) : load_log[j].file = dir[k].file

\* C10 witness: a load completed over a directory whose first artifact is bad
\* and whose later artifact is valid and indexed.
C10_Witness ==
    /\ lpc = "idle"
    /\ ~plugins.isNone
    /\ Len(dir) >= 2
    /\ ~ValidArtifact(dir[1])
    /\ ValidArtifact(dir[Len(dir)])
    /\ HasKey(metadata, dir[Len(dir)].stem)


\* The two indexes load_plugins has built when its scan of the first n
\* artifacts of directory d is complete.
RECURSIVE ScanOf(_, _)
ScanOf(d, n) ==
    IF n = 0
    THEN [plugins |-> Dict(<<>>), metadata |-> Dict(<<>>)]
    ELSE LET before == ScanOf(d, n - 1)
             loaded == load_plugin(d[n])
         IN  IF loaded.raised
             THEN before
             ELSE [plugins |-> DictSet(before.plugins, loaded.plugin_name, loaded.ParserClass),
                   metadata |-> DictSet(before.metadata, loaded.plugin_name, loaded.metadata)]

KeySeq(d) == [k \in 1..Len(d.items) |-> d.items[k].key]

\* C11: a registry reload is a single atomic swap: at every point where
\* another thread may read the registry, the index is the complete old one
\* (that of the previous scan, or none before the first load) or the complete
\* new one, never empty or partially populated; the plugin-class index and the
\* metadata index have the same keys; and what PluginUpdateThread read as
\* local_plugins is a complete index.
C11_AtomicReload ==
    LET complete == ScanOf(dir, Len(dir))
    IN  /\ plugins.isNone = metadata.isNone
        /\ KeySeq(plugins) = KeySeq(metadata)
        /\ metadata \in {NoneVal, complete.metadata}
        /\ plugins \in {NoneVal, complete.plugins}
        /\ tpc = "compare" => local_plugins = Values(complete.metadata)

\* Identities a caller may ask get_parser for: those of the artifacts, and one
\* no artifact has.
Identities == {a.stem : a \in ArtifactPool} \cup {"nowhere"}

\* C12: in every registry state (freshly constructed, during and after a load
\* or reload) get_parser(identity) returns the class indexed under the identity
\* when it is loaded and otherwise fails with NotLoaded (ImportError "Plugin
\* ... not loaded"), never with another error and never with a value.
C12_GetParserNotLoaded ==
    \A id \in Identities :
        LET got == get_parser(plugins, Name(id))
        IN  IF ~plugins.isNone /\ HasKey(plugins, id)
            THEN ~got.raised /\ got.cls = Lookup(plugins, id)
            ELSE /\ got.raised
                 /\ got.exc.type = "ImportError"
                 /\ got.exc.text = "Plugin not loaded."
                 /\ got.exc.args = <<id>>


\* The lower-cased text of the call contains the literal.
Has(literal) == Contains(Lower(mtext), literal)

\* C13: operators are right-associative over the whole remaining
\* expression: for every text, match('"a" && "b" || "c"', text) is the value
\* of match('"a" && ("b" || "c")', text), that of a && (b || c).
C13_RightAssociative ==
    (mres.called /\ mexpr = ExprAndOr) =>
        LET grouped == match_search_string(ExprAndGroup, mtext)
        IN  /\ ~mres.err
            /\ ~grouped.err
            /\ mres.val = grouped.val
            /\ mres.val = (Has(<<"a">>) /\ (Has(<<"b">>) \/ Has(<<"c">>)))

\* C14: match('"a" && "b"', text) is true for every text that contains both
\* a and b, false for a text that contains only a, and does not fail.
C14_AndOfQuotedLiterals ==
    (mres.called /\ mexpr = ExprAnd) =>
        /\ ~mres.err
        /\ mres.val = (Has(<<"a">>) /\ Has(<<"b">>))

\* The expression is one quoted literal whose content has an operator-like
\* character.
QuotedLiteral(e) ==
    /\ Len(e) >= 3
    /\ e[1] = "\""
    /\ e[Len(e)] = "\""
    /\ \A k \in 2..(Len(e) - 1) : e[k] # "\""
    /\ \E k \in 2..(Len(e) - 1) : e[k] \in OperatorChars

\* C15: a quoted literal whose content has operator-like characters matches
\* exactly the texts that contain the content, case-insensitively; the quote
\* characters are not part of what is searched.
C15_QuotedLiteralContent ==
    (mres.called /\ QuotedLiteral(mexpr)) =>
        /\ ~mres.err
        /\ mres.val = Has(Lower(SubSeq(mexpr, 2, Len(mexpr) - 1)))

IsOperator(token) == token = AndTok \/ token = OrTok

\* The token sequence has more closing than opening parentheses somewhere, or
\* parentheses left open at its end.
RECURSIVE Depth(_, _)
Depth(tokens, n) ==
    IF n = 0 THEN 0
    ELSE Depth(tokens, n - 1)
         + (IF tokens[n] = OpenTok THEN 1 ELSE IF tokens[n] = CloseTok THEN -1 ELSE 0)

Unbalanced(tokens) ==
    \/ Depth(tokens, Len(tokens)) # 0
    \/ \E n \in 1..Len(tokens) : Depth(tokens, n) < 0

\* The expression has a dangling operator (leading, trailing or doubled, in
\* the expression or in a group), an unmatched parenthesis, is empty or has an
\* empty group, or has two operands side by side.
Malformed(e) ==
    LET tokens == tokenize(e)
        n == Len(tokens)
        EndsOperand(t) == t = CloseTok \/ (~IsOperator(t) /\ t # OpenTok)
        StartsOperand(t) == t = OpenTok \/ (~IsOperator(t) /\ t # CloseTok)
    IN  \/ n = 0
        \/ IsOperator(tokens[1])
        \/ IsOperator(tokens[n])
        \/ Unbalanced(tokens)
        \/ \E k \in 1..(n - 1) :
              \/ IsOperator(tokens[k]) /\ IsOperator(tokens[k + 1])
              \/ tokens[k] = OpenTok /\ IsOperator(tokens[k + 1])
              \/ IsOperator(tokens[k]) /\ tokens[k + 1] = CloseTok
              \/ tokens[k] = OpenTok /\ tokens[k + 1] = CloseTok
              \/ EndsOperand(tokens[k]) /\ StartsOperand(tokens[k + 1])

\* C16: match fails with MalformedExpression (ValueError), and returns no
\* boolean, for every expression with a dangling operator, an unmatched
\* parenthesis, no operand at all, an empty group, or operands side by side,
\* whatever the text.
C16_MalformedFails ==
    (mres.called /\ Malformed(mexpr)) => mres.err

\* C16 witness: a(B), two operands side by side, was matched against a text
\* that contains both and the call failed.
C16_Witness ==
    /\ mres.called
    /\ mexpr = <<"a", "(", "B", ")">>
    /\ mtext = <<"a", "&", "&", "B">>
    /\ mres.err

\* str.upper() on one character; the result of U+00DF (written "sharp_s"
\* here) is the two characters "SS".
UpperChar(c) ==
    CASE c = "a" -> <<"A">>
      [] c = "b" -> <<"B">>
      [] c = "c" -> <<"C">>
      [] c = "t" -> <<"T">>
      [] c = "sharp_s" -> <<"S", "S">>
      [] OTHER -> <<c>>

\* str.upper()
RECURSIVE Upper(_)
Upper(s) == IF s = <<>> THEN <<>> ELSE UpperChar(Head(s)) \o Upper(Tail(s))

\* The expression is one literal: no operator, no parenthesis.
LiteralOnly(e) == e # <<>> /\ \A k \in 1..Len(e) : e[k] \notin OperatorChars

\* C17: match is case-insensitive: for every literal-only expression e and
\* every text t, match(e, t) and match(e.upper(), t.lower()) are the same
\* boolean, or both fail.
C17_CaseInsensitive ==
    (mres.called /\ LiteralOnly(mexpr)) =>
        LET upper == match_search_string(Upper(mexpr), Lower(mtext))
        IN  upper.err = mres.err /\ upper.val = mres.val


\* C18: after any load of the registry every indexed plugin's declared suffix
\* is a key of ROUTERS, so the registry's set of supported suffixes holds no
\* suffix for which parse_any fails with UnsupportedFormat.
C18_SuffixesRouted ==
    (lpc = "idle" /\ ~metadata.isNone) =>
        /\ \A k \in 1..Len(metadata.items) :
               metadata.items[k].val.SUFFIX \in DOMAIN ROUTERS
        /\ \A suffix \in suffixes : RouterKey(suffix) \in DOMAIN ROUTERS


\* parse_any's choice of router class for a source, or "none".
RouterFor(src) ==
    LET sfx == RouterKey(SourceInput(src).parse_input.suffix)
    IN  IF sfx \in DOMAIN ROUTERS THEN ROUTERS[sfx] ELSE "none"

\* What the router's select_parser call gives for a source.
SelectionFor(src, md) ==
    select_parser(md, SourceInput(src).parse_input.text, SuffixOf(RouterFor(src)))

\* The loop of PDFRouter.parse from candidate i on, `failed` being errs: the
\* plugins invoked and the outcome of the call.
RECURSIVE ChainFrom(_, _, _, _, _, _)
ChainFrom(reg, candidates, outcome_of, fpath, i, failed) ==
    LET ex == extract_statement(reg, Name(candidates[i]), outcome_of, fpath)
        failed1 == Append(failed, ErrEntry(candidates[i], ex.exc))
        step == ChainStep(ex.raised, i, Len(candidates))
    IN  IF step = "return"
        THEN [calls |-> ex.invoked, result |-> Returned(ex.value)]
        ELSE IF step = "continue"
        THEN LET rest == ChainFrom(reg, candidates, outcome_of, fpath, i + 1, failed1)
             IN  [calls |-> ex.invoked \o rest.calls, result |-> rest.result]
        ELSE [calls |-> ex.invoked, result |-> Raised(FailedToParse(fpath, failed1))]

\* parse_any(source) as a whole over the registry (reg, md), outcome_of giving
\* what each plugin's parse() does on the document: the plugins invoked, in
\* order, and the outcome.
OutcomeFor(src, reg, md, outcome_of) ==
    LET given == SourceInput(src)
        fpath == FpathOf(given.path_hint, given.parse_input)
        sel == SelectionFor(src, md)
    IN  IF RouterFor(src) = "none"
        THEN [calls |-> <<>>,
              result |-> Raised(Exc("ValueError", "Unsupported file suffix", <<>>))]
        ELSE IF sel.raised
        THEN [calls |-> <<>>, result |-> Raised(sel.exc)]
        ELSE IF RouterFor(src) = "PDFRouter"
        THEN ChainFrom(reg, sel.plugins, outcome_of, fpath, 1, <<>>)
        ELSE LET ex == extract_statement(reg, NameList(sel.plugins), outcome_of, fpath)
             IN  [calls |-> ex.invoked,
                  result |-> IF ex.raised THEN Raised(ex.exc) ELSE Returned(ex.value)]

\* The suffix a source comes with: that of the path, or that of the input.
SuffixGiven(src) ==
    IF src.kind = "Path" THEN src.path.suffix ELSE src.input.suffix

\* One source is a Path, the other a ParseInput, with the same bytes and the
\* same suffix.
Twins(one, other) ==
    /\ one.kind # other.kind
    /\ one.data = other.data
    /\ SuffixGiven(one) = SuffixGiven(other)

\* An outcome without its provenance: the file of the Statement's metadata
\* and the path in the aggregated failure's message.
Unprovenanced(r) ==
    [raised |-> r.raised,
     value |-> [r.value EXCEPT !.metadata.file = ""],
     exc |-> IF r.exc.text = "Failed to parse" THEN [r.exc EXCEPT !.args = <<>>]
             ELSE r.exc]

\* C19: parse_any with a Path and parse_any with a ParseInput of the same
\* bytes and the same suffix select the same router, get the same candidate
\* list, invoke the same plugins in the same order and have the same outcome
\* (same Statement content or same failure) up to the provenance; the display
\* name has no part in routing or plugin selection.
C19_PathAndInputAgree ==
    [](pc = "done" =>
          LET mine == OutcomeFor(source, plugins, metadata, behav)
              selected == SelectionFor(source, metadata)
          IN  /\ router = RouterFor(source)
              /\ calls = mine.calls
              /\ result = mine.result
              /\ ~result.raised => result.value.metadata.file = Fpath
              /\ \A twin \in Sources :
                     Twins(twin, source) =>
                         /\ RouterFor(twin) = router
                         /\ router # "none" =>
                                /\ SelectionFor(twin, metadata) = selected
                                /\ ~selected.raised => cands = selected.plugins
                         /\ LET theirs == OutcomeFor(twin, plugins, metadata, behav)
                            IN  /\ theirs.calls = calls
                                /\ Unprovenanced(theirs.result) = Unprovenanced(result))

\* C19 witness: the file /docs/stmt.PDF went through a fallback chain of two
\* plugins and its Statement was returned, and the in-memory input with the
\* same bytes and suffix gets a Statement with another file in its metadata.
C19_Witness ==
    /\ pc = "done"
    /\ source.kind = "Path"
    /\ source.path.path = "/docs/stmt.PDF"
    /\ ~result.raised
    /\ Len(calls) = 2
    /\ \E twin \in Sources :
           /\ Twins(twin, source)
           /\ OutcomeFor(twin, plugins, metadata, behav).result.value.metadata.file
                  # result.value.metadata.file


\* Sum of the amounts of the first n transactions.
RECURSIVE AmountsUpTo(_, _)
AmountsUpTo(txns, n) ==
    IF n = 0 THEN 0 ELSE AmountsUpTo(txns, n - 1) + txns[n].amount

\* `after` holds the transactions of `before` in chronological order, those
\* of one date in their order in `before`.
ChronologicalOrderOf(after, before) ==
    /\ Len(after) = Len(before)
    /\ \E p \in Permutations(1..Len(before)) :
           /\ \A i \in 1..Len(after) :
                  /\ after[i].date = before[p[i]].date
                  /\ after[i].amount = before[p[i]].amount
           /\ \A i, j \in 1..Len(after) :
                  i < j => /\ after[i].date <= after[j].date
                           /\ after[i].date = after[j].date => p[i] < p[j]

\* C20: for every account of a Statement that passes through
\* extract_statement, reconciliation overwrites the balances the plugin wrote:
\* after it the transactions are in chronological order, ties in extraction
\* order, each balance is start_balance plus the sum of the amounts up to and
\* including that transaction, and the last balance is start_balance plus the
\* sum of all amounts.
C20_BalancesRecomputed ==
    ledger # <<>> =>
        /\ Len(ledger) = Len(extracted.accounts)
        /\ \A k \in 1..Len(ledger) :
               LET before == extracted.accounts[k]
                   after == ledger[k]
                   n == Len(before.transactions)
               IN  /\ after.start_balance = before.start_balance
                   /\ after.end_balance = before.end_balance
                   /\ ChronologicalOrderOf(after.transactions, before.transactions)
                   /\ \A i \in 1..n :
                          after.transactions[i].balance =
                              before.start_balance + AmountsUpTo(after.transactions, i)
                   /\ n > 0 =>
                          after.transactions[n].balance =
                              before.start_balance + AmountsUpTo(before.transactions, n)

\* C20 witness: a Statement of two accounts was reconciled whose first
\* account had a later transaction before two of one date with different
\* amounts, and a plugin-written balance was replaced.
C20_Witness ==
    /\ ledger # <<>>
    /\ Len(extracted.accounts) = 2
    /\ LET txns == extracted.accounts[1].transactions
       IN  /\ Len(txns) = 3
           /\ txns[1].date > txns[2].date
           /\ txns[2].date = txns[3].date
           /\ txns[2].amount # txns[3].amount
           /\ txns[2].balance = 7
           /\ ledger[1].transactions[1].balance # 7


\* C21: the document handle opened by PDFRouter.parse is released on every
\* exit path (a returned Statement, a failure of select_parser, a success
\* after failed candidates, the failure of all candidates), and it stays open
\* during selection and across all candidate attempts: it is never released
\* before the last attempt ends.
C21_ReaderReleased ==
    /\ pc = "done" => ~reader_open
    /\ pc \in {"reading", "chain"} => router = "PDFRouter" /\ reader_open
    /\ router # "PDFRouter" => ~reader_open

\* C21 witness: PDFRouter.parse returned the Statement of a later candidate
\* after an earlier one failed inside the block, and the reader is closed.
C21_Witness ==
    /\ pc = "done"
    /\ router = "PDFRouter"
    /\ errs # <<>>
    /\ Len(calls) > 1
    /\ ~result.raised
    /\ ~reader_open


\* The phases of one extraction step, in the order extract_statement and
\* run_parser go through them.
ExtractionPhases ==
    <<"resolve", "invoke", "check", "reconcile", "metadata", "validate">>

\* Whether the latest extraction step ended in an exception, and that
\* exception as the router holds it: the entry PDFRouter.parse appended to
\* errs, or the exception the single-candidate routers let through.
StepFailed == IF router = "PDFRouter" THEN Len(errs) = Len(calls) ELSE result.raised
StepError == IF router = "PDFRouter" THEN errs[Len(errs)] ELSE result.exc

\* C22: within one extraction step the phases occur in the fixed order
\* resolve, invoke, check return type, reconcile every account, attach
\* provenance, validate; validation sees the reconciled balances and the
\* attached provenance; and no later phase runs when an earlier one failed.
C22_PhaseOrder ==
    phases # <<>> =>
        LET n == Len(phases)
        IN  /\ phases = SubSeq(ExtractionPhases, 1, n)
            /\ n = 1 => calls = <<>> /\ StepFailed
            /\ n >= 2 =>
                   /\ calls # <<>>
                   /\ LET plugin == calls[Len(calls)]
                          last == behav[plugin]
                          seen == add_metadata(
                                      [last.value EXCEPT !.accounts =
                                          [k \in 1..Len(last.value.accounts) |->
                                              sort_and_compute_balances(last.value.accounts[k])]],
                                      Fpath, plugin)
                      IN  /\ n = 2 <=> last.raised
                          /\ n = 3 <=> ~last.raised /\ last.value.type # "Statement"
                          /\ n = 6 <=> ~last.raised /\ last.value.type = "Statement"
                          /\ n < 6 => StepFailed
                          /\ n = 6 =>
                                 IF validate_statement(seen) = <<>>
                                 THEN ~StepFailed /\ result = Returned(seen)
                                 ELSE /\ StepFailed
                                      /\ StepError.text = "defects"
                                      /\ StepError.args = validate_statement(seen)

\* C22 witness: an extraction step went through all six phases and returned
\* a Statement whose balances differ from those the plugin wrote, which
\* validation accepted only because it saw the reconciled ones.
C22_Witness ==
    /\ pc = "done"
    /\ phases = ExtractionPhases
    /\ ~result.raised
    /\ calls # <<>>
    /\ result.value.accounts # behav[calls[Len(calls)]].value.accounts
    /\ validate_statement(behav[calls[Len(calls)]].value) # <<>>
    /\ validate_statement(result.value) = <<>>


\* C23: the provenance of a returned Statement is set by the router after
\* extraction, not by the plugin, and names the plugin whose extraction
\* produced that Statement: in a fallback chain it is the succeeding
\* candidate, never one that failed before it.
C23_ProvenanceNamesProducer ==
    (pc = "done" /\ ~result.raised) =>
        /\ calls # <<>>
        /\ LET producer == calls[Len(calls)]
           IN  /\ ~behav[producer].raised
               /\ behav[producer].value.type = "Statement"
               /\ behav[producer].value.metadata = NoMetadata
               /\ result.value.metadata.plugin = producer
               /\ result.value.metadata.file = Fpath
               /\ producer = cands[Len(errs) + 1]
               /\ \A k \in 1..Len(errs) :
                      /\ errs[k].plugin = cands[k]
                      /\ errs[k].plugin # result.value.metadata.plugin

\* C23 witness: the first candidate failed, the second one's Statement was
\* returned, and it carries the second candidate's identity.
C23_Witness ==
    /\ pc = "done"
    /\ ~result.raised
    /\ Len(errs) = 1
    /\ Len(cands) >= 2
    /\ result.value.metadata.plugin = cands[2]
    /\ result.value.metadata.plugin # cands[1]


\* The ParseInput of the call in progress is the one the caller handed in,
\* or the one from_path built from the caller's Path.
InputAsGiven ==
    pc # "idle" =>
        parse_input = IF source.kind = "ParseInput" THEN source.input
                      ELSE from_path(source.path, source.data)

\* A step of a parse_any call, from its start to its outcome.
CallStep == pc # "done" /\ pc' # "idle"

\* C24: an extraction call is read-only with respect to its inputs: whatever
\* its outcome, parse_any leaves the registry's plugin index, metadata index
\* and suffix set unchanged, and leaves the ParseInput's name, suffix and data
\* unchanged.
C24_ExtractionReadOnly ==
    /\ []InputAsGiven
    /\ [][CallStep =>
              /\ UNCHANGED <<plugins, metadata, suffixes>>
              /\ pc # "idle" => UNCHANGED <<parse_input, source>>]_vars

\* C24 witness: a call on an in-memory input with an upper-case suffix
\* returned a Statement from a loaded registry, the input still as given.
C24_Witness ==
    /\ pc = "done"
    /\ ~result.raised
    /\ source.kind = "ParseInput"
    /\ source.input.suffix # Lower(source.input.suffix)
    /\ parse_input = source.input
    /\ ~plugins.isNone
    /\ plugins.items # <<>>


\* Number of blanks in a string, and in the texts of a list of tokens.
RECURSIVE Blanks(_)
Blanks(str) ==
    IF str = <<>> THEN 0
    ELSE (IF Head(str) = " " THEN 1 ELSE 0) + Blanks(Tail(str))

RECURSIVE TokenBlanks(_)
TokenBlanks(tokens) ==
    IF tokens = <<>> THEN 0 ELSE Blanks(Head(tokens).s) + TokenBlanks(Tail(tokens))

Blank == StrTok(<<" ">>)

Wanted(local, server) ==
    SelectSeq(server,
        LAMBDA p :
            \/ \A k \in 1..Len(local) : local[k].PLUGIN_NAME # p.PLUGIN_NAME
            \/ \E k \in 1..Len(local) :
                   /\ local[k].PLUGIN_NAME = p.PLUGIN_NAME
                   /\ VersionRank(local[k].VERSION) < VersionRank(p.VERSION))

WellFormed(server) == \A k \in 1..Len(server) : "PLUGIN_NAME" \in DOMAIN server[k]

\* The files of the download_plugin calls made, in call order.
Downloaded == [k \in 1..Len(downloads) |-> downloads[k].file]

\* C25: for both values of its progress flag, sync_plugins downloads exactly
\* the server plugins that are missing locally or newer on the server, in
\* server-list order; plugins present only locally are neither downloaded
\* nor removed, and up-to-date plugins are not downloaded.
C25_SyncDownloadsNew ==
    (/\ ucall = "sync_plugins"
     /\ upc = "done"
     /\ WellFormed(server_list)
     /\ \A k \in 1..Len(downloads) : downloads[k].ok) =>
        LET wanted == Wanted(local_list, server_list)
        IN  /\ ~uresult.raised
            /\ Downloaded = [k \in 1..Len(wanted) |-> wanted[k].FILENAME]
            /\ \A k \in 1..Len(local_list) :
                   \E j \in 1..Len(dir) : dir[j].file = local_list[k].FILENAME


\* The registry holds exactly what the caller read from it at the start of
\* the update call, and no load is running.
IndexAsRead == lpc = "idle" /\ ~metadata.isNone /\ Values(metadata) = local_list

\* C26: check_for_plugin_updates returns True exactly when at least one
\* server plugin is new or newer; then every such plugin was downloaded before
\* the registry was reloaded and the reload completed before True was
\* returned.  When it returns False nothing was downloaded and the registry
\* index is unchanged; when a download fails the error propagates and the
\* registry is not reloaded.
C26_CheckForUpdates ==
    ucall = "check_for_plugin_updates" =>
        LET wanted == Wanted(local_list, server_list)
            files == [k \in 1..Len(wanted) |-> wanted[k].FILENAME]
            all_fetched == /\ Downloaded = files
                           /\ \A k \in 1..Len(downloads) : downloads[k].ok
        IN  /\ (upc = "done" /\ ~uresult.raised) =>
                   /\ WellFormed(server_list)
                   /\ uresult.value \in {"True", "False"}
                   /\ uresult.value = "True" <=> wanted # <<>>
            /\ upc \in {"reload", "reloading"} => all_fetched
            /\ (upc = "done" /\ uresult = UReturned("True")) =>
                   /\ all_fetched
                   /\ lpc = "idle"
                   /\ KeySeq(plugins) = KeySeq(metadata)
                   /\ \A k \in 1..Len(wanted) :
                          /\ HasKey(metadata, wanted[k].PLUGIN_NAME)
                          /\ Lookup(metadata, wanted[k].PLUGIN_NAME).VERSION = wanted[k].VERSION
                          /\ HasKey(plugins, wanted[k].PLUGIN_NAME)
            /\ (upc = "done" /\ uresult = UReturned("False")) =>
                   downloads = <<>> /\ IndexAsRead
            /\ (upc \in {"download", "done"}
                    /\ \E k \in 1..Len(downloads) : ~downloads[k].ok) =>
                   /\ upc = "done"
                   /\ uresult.raised
                   /\ uresult.exc.type \in {"OSError", "ConnectionError"}
                   /\ uresult.exc.args = <<downloads[Len(downloads)].file>>
                   /\ IndexAsRead

\* C26 witness: check_for_plugin_updates returned True after downloading a
\* newer version and a missing plugin, and the reloaded registry holds the
\* newer version.
C26_Witness ==
    /\ ucall = "check_for_plugin_updates"
    /\ upc = "done"
    /\ uresult = UReturned("True")
    /\ Len(downloads) = 2
    /\ \E k \in 1..Len(local_list) :
           /\ local_list[k].PLUGIN_NAME = "pdf_a"
           /\ local_list[k].VERSION = "0.1.0"
    /\ HasKey(metadata, "pdf_a")
    /\ Lookup(metadata, "pdf_a").VERSION = "0.2.0"
    /\ Len(server_list) = 3


\* A load_plugins call has completed and the plugin directory has not been
\* written since: before the update call, at the reload inside
\* check_for_plugin_updates, or at a load after the update call.
LoadCompleted ==
    /\ lpc = "idle"
    /\ ~plugins.isNone
    /\ \/ upc \in {"idle", "reloading", "later"}
       \/ upc = "done" /\ uresult = UReturned("True")

\* C27: after every completed load_plugins, first load or reload, the
\* plugin-class index and the metadata index have the same keys, which are
\* exactly the artifacts of the directory that load and validate in this scan
\* (nothing survives from a previous load, a failed artifact is in neither
\* index); each metadata entry carries its artifact's file name; and the
\* suffix set is the set of declared suffixes of the indexed plugins.
C27_IndexesOfThisScan ==
    LoadCompleted =>
        LET good == {k \in 1..Len(dir) : ValidArtifact(dir[k])}
            keys(d) == {d.items[k].key : k \in 1..Len(d.items)}
        IN  /\ ~metadata.isNone
            /\ keys(plugins) = {dir[k].stem : k \in good}
            /\ keys(metadata) = keys(plugins)
            /\ Len(plugins.items) = Cardinality(good)
            /\ Len(metadata.items) = Cardinality(good)
            /\ \A k \in good :
                   /\ Lookup(metadata, dir[k].stem).FILENAME = dir[k].file
                   /\ Lookup(metadata, dir[k].stem).VERSION = dir[k].VERSION
                   /\ Lookup(plugins, dir[k].stem) = ParserClassOf(dir[k])
            /\ suffixes = {dir[k].SUFFIX : k \in good}

\* C27 witness: a reload completed over a directory in which a plugin that
\* the previous load had indexed no longer loads, next to plugins that do.
C27_Witness ==
    /\ LoadCompleted
    /\ upc = "later"
    /\ Len(metadata.items) >= 1
    /\ \E k \in 1..Len(dir), j \in 1..Len(local_list) :
           /\ ~ValidArtifact(dir[k])
           /\ local_list[j].PLUGIN_NAME = dir[k].stem
           /\ ~HasKey(metadata, dir[k].stem)


\* C29: a download that fails while fetching a newer version of an installed
\* plugin leaves the installed artifact of that file name as it was, so a
\* later load_plugins still loads the old version.
C29_FailedUpdateKeepsOld ==
    \A k \in 1..Len(downloads), j \in 1..Len(local_list) :
        (~downloads[k].ok /\ local_list[j].FILENAME = downloads[k].file) =>
            /\ \E i \in 1..Len(dir) :
                   /\ dir[i].file = local_list[j].FILENAME
                   /\ ValidArtifact(dir[i])
                   /\ dir[i].VERSION = local_list[j].VERSION
            /\ (upc = "later" /\ lpc = "idle") =>
                   /\ HasKey(metadata, local_list[j].PLUGIN_NAME)
                   /\ Lookup(metadata, local_list[j].PLUGIN_NAME).VERSION = local_list[j].VERSION


\* A step of PluginUpdateThread.run.
RunStep == tpc \in {"run", "compare"} /\ tpc' # tpc

\* The signal run() owes for the lists it read.
SignalOwed ==
    IF ~WellFormed(server_plugins)
    THEN Signal("update_complete", FALSE, "Plugin update Failed:")
    ELSE IF Wanted(local_plugins, server_plugins) # <<>>
    THEN Signal("update_available", TRUE, "")
    ELSE Signal("update_complete", TRUE, "Plugins are up to date.")

====
